---- MODULE Spec2Model ----
(***************************************************************************)
(* Model of the qualitative-evaluation translator                          *)
(* (dl-example/qualitative_evaluation_translator.py) and of the polytope   *)
(* geometry engine (dl-example/polytope_visualizer.py).                    *)
(*                                                                         *)
(* Numbers.  Every real number of the program is held as an integer count  *)
(* of hundredths: 0.01 is 1, 0.4 is 40, 1.0 is 100, the default search box *)
(* [-10, 10] is [-1000, 1000].  Coefficients (0, +1, -1) are plain         *)
(* integers.  A solved intersection point is an exact rational: a tuple of *)
(* numerators over one positive denominator, in lowest terms.  The         *)
(* floating-point tolerances of the program (1e-10 for feasibility, 1e-8   *)
(* plus the relative 1e-5 of numpy.allclose for deduplication) are smaller *)
(* than the distance between two distinct values this model can produce,   *)
(* so "x <= b + 1e-10" is "x <= b" and "allclose" is equality here.        *)
(*                                                                         *)
(* Python's None is the string "None" for operator and criteria, and the   *)
(* empty sequence for values (the code only tests "not evaluation.values", *)
(* which None and [] both satisfy).  Sequences are 1-based here; positions *)
(* named pos, idx, crit_idx keep the program's 0-based values.             *)
(***************************************************************************)
EXTENDS Integers, Sequences, FiniteSets, TLC

VARIABLES
    projects,      \* QualitativeEvaluationTranslator.projects
    criteria,      \* QualitativeEvaluationTranslator.criteria
    evaluations,   \* QualitativeEvaluationTranslator.evaluations
    constraints,   \* QualitativeEvaluationTranslator.constraints
    visualizer,    \* the PolytopeVisualizer built on the translator, or NoVisualizer
    backend,       \* the WizardBackend: its loaded projects and evaluations, and
                   \* whether its translator exists (the translator's fields are
                   \* the four variables above, its visualizer is visualizer)
    call           \* the last method call the properties look at: its argument and
                   \* what it returned

vars == <<projects, criteria, evaluations, constraints, visualizer, backend, call>>

----------------------------------------------------------------------------
(* Bounds of the model *)

\* longest evaluation list a translator is given
MaxEvals == 3
\* longest project list of one evaluation (a Ranking of MaxRank entities)
MaxRank == 3

\* the number of evaluations in a batch given to translate_evaluations
MaxBatch == 2

\* the number of evaluations of a system whose constraints are removed one at a time
MaxSystem == 2

----------------------------------------------------------------------------
(* Program constants, in hundredths *)

\* bound=-0.01 of a strict comparison is -Epsilon
Epsilon == 1
\* confidence: float = 1.0
DefaultConfidence == 100
\* bounds = [(-10, 10) ...]
DefaultBound == 1000

----------------------------------------------------------------------------
(* EvaluationType, ComparisonOperator, QualitativeEvaluation *)

EvaluationType == {"comparison", "range", "ranking", "preference", "threshold"}

ComparisonOperator == {">", "<", ">=", "<=", "=", "!="}

QualitativeEvaluation(evaluator_id, evaluation_type, projs, operator, values, confidence, crit) ==
    [evaluator_id    |-> evaluator_id,
     evaluation_type |-> evaluation_type,
     projects        |-> projs,
     operator        |-> operator,
     values          |-> values,
     confidence      |-> confidence,
     criteria        |-> crit]

LinearConstraint(coefficients, bound, is_equality, constraint_id, source_evaluation) ==
    [coefficients      |-> coefficients,
     bound             |-> bound,
     is_equality       |-> is_equality,
     constraint_id     |-> constraint_id,
     source_evaluation |-> source_evaluation]

----------------------------------------------------------------------------
(* QualitativeEvaluationTranslator: construction and indices *)

n_projects == Len(projects)

n_criteria == Len(criteria)

\* criteria or ['value']
criteria_or_default(criteria_arg) ==
    IF criteria_arg = <<>> THEN <<"value">> ELSE criteria_arg

\* proj in self.project_index
known_project(proj) == \E i \in 1..n_projects : projects[i] = proj

\* self.project_index[proj]: the dict comprehension keeps the last position of a name
project_index(proj) ==
    CHOOSE idx \in 0..(n_projects - 1) :
        /\ projects[idx + 1] = proj
        /\ \A j \in (idx + 1)..(n_projects - 1) : projects[j + 1] # proj

\* np.zeros(n)
zeros(n) == [i \in 1..n |-> 0]

\* coeffs[pos] = x
set_item(coeffs, pos, x) == [coeffs EXCEPT ![pos + 1] = x]

\* what a parse method hands back: the exception it raised ("None" when it returned)
\* and the list it returned
Raise(exc) == [raised |-> exc, constraints |-> <<>>]

Return(cs) == [raised |-> "None", constraints |-> cs]

\* mutant of position: criterion-major, crit_idx * n_projects + idx
position_criterion_major(idx, crit_idx) == crit_idx * n_projects + idx

\* idx * self.n_criteria + crit_idx
position(idx, crit_idx) == idx * n_criteria + crit_idx

----------------------------------------------------------------------------
(* parse_comparison_evaluation *)

\* mutant of comparison_coeffs: the two signs exchanged
comparison_coeffs_swapped(proj_a, proj_b, crit_idx) ==
    LET coeffs == [i \in 1..(Len(projects) * Len(criteria)) |-> 0]
        pos_a  == project_index(proj_a) * Len(criteria) + crit_idx
        pos_b  == project_index(proj_b) * Len(criteria) + crit_idx
    IN  [[coeffs EXCEPT ![pos_a + 1] = -1] EXCEPT ![pos_b + 1] = 1]

\* coeffs[pos_a] = 1.0 ; coeffs[pos_b] = -1.0 on a fresh np.zeros vector
comparison_coeffs(proj_a, proj_b, crit_idx) ==
    LET coeffs == zeros(n_projects * n_criteria)
        pos_a  == position(project_index(proj_a), crit_idx)
        pos_b  == position(project_index(proj_b), crit_idx)
    IN  set_item(set_item(coeffs, pos_a, 1), pos_b, -1)

\* f"comp_{proj_a}_{proj_b}_{criterion}": the parts the string is built from
comparison_id(proj_a, proj_b, crit_idx) ==
    <<"comp", proj_a, proj_b, criteria[crit_idx + 1]>>

\* the branch "evaluation.operator == ComparisonOperator.GREATER"
comparison_greater(evaluation, crit_idx) ==
    LET proj_a == evaluation.projects[1]
        proj_b == evaluation.projects[2]
    IN  LinearConstraint(comparison_coeffs(proj_a, proj_b, crit_idx), -Epsilon, FALSE,
                         comparison_id(proj_a, proj_b, crit_idx), evaluation)

\* mutant of comparison_less: the row mirrored, -1 at a and +1 at b
comparison_less_mirrored(evaluation, crit_idx) ==
    LET proj_a == evaluation.projects[1]
        proj_b == evaluation.projects[2]
    IN  LinearConstraint(comparison_coeffs(proj_b, proj_a, crit_idx), -Epsilon, FALSE,
                         comparison_id(proj_a, proj_b, crit_idx), evaluation)

\* the branch "evaluation.operator == ComparisonOperator.LESS"
comparison_less(evaluation, crit_idx) ==
    LET proj_a == evaluation.projects[1]
        proj_b == evaluation.projects[2]
    IN  LinearConstraint(comparison_coeffs(proj_a, proj_b, crit_idx), -Epsilon, FALSE,
                         comparison_id(proj_a, proj_b, crit_idx), evaluation)

\* mutant of comparison_equal: the equality has the bound epsilon
comparison_equal_offset(evaluation, crit_idx) ==
    LET proj_a == evaluation.projects[1]
        proj_b == evaluation.projects[2]
    IN  LinearConstraint(comparison_coeffs(proj_a, proj_b, crit_idx), Epsilon, TRUE,
                         comparison_id(proj_a, proj_b, crit_idx), evaluation)

\* the branch "evaluation.operator == ComparisonOperator.EQUAL"
comparison_equal(evaluation, crit_idx) ==
    LET proj_a == evaluation.projects[1]
        proj_b == evaluation.projects[2]
    IN  LinearConstraint(comparison_coeffs(proj_a, proj_b, crit_idx), 0, TRUE,
                         comparison_id(proj_a, proj_b, crit_idx), evaluation)

\* what one iteration of the loop over self.criteria appends
comparison_iteration(evaluation, crit_idx) ==
    IF evaluation.operator = ">" THEN <<comparison_greater(evaluation, crit_idx)>>
    ELSE IF evaluation.operator = "<" THEN <<comparison_less(evaluation, crit_idx)>>
    ELSE IF evaluation.operator = "=" THEN <<comparison_equal(evaluation, crit_idx)>>
    ELSE <<>>

\* for crit_idx, criterion in enumerate(self.criteria): every criterion of the
\* translator, whatever evaluation.criteria names
RECURSIVE comparison_loop(_, _)
comparison_loop(evaluation, crit_idx) ==
    IF crit_idx >= n_criteria THEN <<>>
    ELSE comparison_iteration(evaluation, crit_idx)
            \o comparison_loop(evaluation, crit_idx + 1)

parse_comparison_evaluation(evaluation) ==
    IF Len(evaluation.projects) # 2 THEN Raise("ValueError")
    ELSE IF ~known_project(evaluation.projects[1]) THEN Raise("KeyError")
    ELSE IF ~known_project(evaluation.projects[2]) THEN Raise("KeyError")
    ELSE Return(comparison_loop(evaluation, 0))

----------------------------------------------------------------------------
(* parse_range_evaluation *)

\* mutant of ndarray_copy: no copy, the constraint holds the array itself and so
\* what the iteration wrote to it afterwards
ndarray_alias(at_copy, at_end) == at_end

\* coeffs.copy(): the constraint keeps the contents the array had when it was
\* copied (at_copy), not what the array holds once the iteration has finished
\* writing to it (at_end)
ndarray_copy(at_copy, at_end) == at_copy

\* what one iteration of the loop over self.criteria appends: lower, then upper
range_iteration(evaluation, crit_idx) ==
    LET proj      == evaluation.projects[1]
        criterion == criteria[crit_idx + 1]
        min_val   == evaluation.values[1]
        max_val   == evaluation.values[2]
        pos       == position(project_index(proj), crit_idx)
        coeffs0   == zeros(n_projects * n_criteria)
        coeffs1   == set_item(coeffs0, pos, 1)
        coeffs2   == set_item(coeffs1, pos, -1)
        constraint_lower ==
            LinearConstraint(ndarray_copy(coeffs1, coeffs2), min_val, FALSE,
                             <<"range_lower", proj, criterion>>, evaluation)
        constraint_upper ==
            LinearConstraint(ndarray_copy(coeffs2, coeffs2), -max_val, FALSE,
                             <<"range_upper", proj, criterion>>, evaluation)
    IN  <<constraint_lower, constraint_upper>>

RECURSIVE range_loop(_, _)
range_loop(evaluation, crit_idx) ==
    IF crit_idx >= n_criteria THEN <<>>
    ELSE range_iteration(evaluation, crit_idx) \o range_loop(evaluation, crit_idx + 1)

parse_range_evaluation(evaluation) ==
    IF Len(evaluation.projects) # 1 THEN Raise("ValueError")
    ELSE IF Len(evaluation.values) # 2 THEN Raise("ValueError")
    ELSE IF ~known_project(evaluation.projects[1]) THEN Raise("KeyError")
    ELSE Return(range_loop(evaluation, 0))

----------------------------------------------------------------------------
(* parse_ranking_evaluation *)

\* mutant of ranking_loop: a pair whose parse raises ends the loop, and the
\* constraints of the earlier pairs are returned
RECURSIVE ranking_loop_partial(_, _)
ranking_loop_partial(evaluation, i) ==
    IF i >= Len(evaluation.projects) - 1 THEN Return(<<>>)
    ELSE LET comp == parse_comparison_evaluation(
                        QualitativeEvaluation(evaluation.evaluator_id, "comparison",
                            <<evaluation.projects[i + 1], evaluation.projects[i + 2]>>,
                            ">", <<>>, evaluation.confidence, evaluation.criteria))
         IN  IF comp.raised # "None" THEN Return(<<>>)
             ELSE Return(comp.constraints \o ranking_loop_partial(evaluation, i + 1).constraints)

\* mutant of ranking_pair: the lower-ranked project first
ranking_pair_reversed(evaluation, i) ==
    QualitativeEvaluation(evaluation.evaluator_id, "comparison",
                          <<evaluation.projects[i + 2], evaluation.projects[i + 1]>>,
                          ">", <<>>, evaluation.confidence, evaluation.criteria)

\* comp_eval = QualitativeEvaluation(...) for the pair projects[i], projects[i + 1]
ranking_pair(evaluation, i) ==
    QualitativeEvaluation(evaluation.evaluator_id, "comparison",
                          <<evaluation.projects[i + 1], evaluation.projects[i + 2]>>,
                          ">", <<>>, evaluation.confidence, evaluation.criteria)

\* for i in range(len(projects) - 1): an exception of a pair leaves the method,
\* and the constraints of the earlier pairs with it
RECURSIVE ranking_loop(_, _)
ranking_loop(evaluation, i) ==
    IF i >= Len(evaluation.projects) - 1 THEN Return(<<>>)
    ELSE LET comp == parse_comparison_evaluation(ranking_pair(evaluation, i))
         IN  IF comp.raised # "None" THEN comp
             ELSE LET rest == ranking_loop(evaluation, i + 1)
                  IN  IF rest.raised # "None" THEN rest
                      ELSE Return(comp.constraints \o rest.constraints)

parse_ranking_evaluation(evaluation) ==
    IF Len(evaluation.projects) < 2 THEN Raise("ValueError")
    ELSE ranking_loop(evaluation, 0)

----------------------------------------------------------------------------
(* parse_threshold_evaluation *)

\* the branch "evaluation.operator == ComparisonOperator.GREATER_EQUAL"
threshold_greater_equal(evaluation, crit_idx) ==
    LET proj   == evaluation.projects[1]
        pos    == position(project_index(proj), crit_idx)
        coeffs == set_item(zeros(n_projects * n_criteria), pos, 1)
    IN  LinearConstraint(coeffs, evaluation.values[1], FALSE,
                         <<"threshold", proj, criteria[crit_idx + 1]>>, evaluation)

\* mutant of threshold_less_equal: the bound not negated
threshold_less_equal_unnegated(evaluation, crit_idx) ==
    LET proj   == evaluation.projects[1]
        pos    == project_index(proj) * Len(criteria) + crit_idx
        coeffs == [[i \in 1..(Len(projects) * Len(criteria)) |-> 0] EXCEPT ![pos + 1] = -1]
    IN  LinearConstraint(coeffs, evaluation.values[1], FALSE,
                         <<"threshold", proj, criteria[crit_idx + 1]>>, evaluation)

\* the branch "evaluation.operator == ComparisonOperator.LESS_EQUAL"
threshold_less_equal(evaluation, crit_idx) ==
    LET proj   == evaluation.projects[1]
        pos    == position(project_index(proj), crit_idx)
        coeffs == set_item(zeros(n_projects * n_criteria), pos, -1)
    IN  LinearConstraint(coeffs, -evaluation.values[1], FALSE,
                         <<"threshold", proj, criteria[crit_idx + 1]>>, evaluation)

\* mutant of threshold_iteration: the strict operators are taken for the weak ones
threshold_iteration_lenient(evaluation, crit_idx) ==
    IF evaluation.operator \in {">=", ">"}
        THEN <<threshold_greater_equal(evaluation, crit_idx)>>
    ELSE IF evaluation.operator \in {"<=", "<"}
        THEN <<threshold_less_equal(evaluation, crit_idx)>>
    ELSE <<>>

\* the if/elif on evaluation.operator inside the loop over self.criteria: no else
threshold_iteration(evaluation, crit_idx) ==
    IF evaluation.operator = ">=" THEN <<threshold_greater_equal(evaluation, crit_idx)>>
    ELSE IF evaluation.operator = "<=" THEN <<threshold_less_equal(evaluation, crit_idx)>>
    ELSE <<>>

RECURSIVE threshold_loop(_, _)
threshold_loop(evaluation, crit_idx) ==
    IF crit_idx >= n_criteria THEN <<>>
    ELSE threshold_iteration(evaluation, crit_idx)
            \o threshold_loop(evaluation, crit_idx + 1)

parse_threshold_evaluation(evaluation) ==
    IF Len(evaluation.projects) # 1 THEN Raise("ValueError")
    ELSE IF Len(evaluation.values) # 1 THEN Raise("ValueError")
    ELSE IF ~known_project(evaluation.projects[1]) THEN Raise("KeyError")
    ELSE Return(threshold_loop(evaluation, 0))

----------------------------------------------------------------------------
(* translate_evaluations *)

\* the kinds the if/elif chain of translate_evaluations has a branch for
supported(evaluation) ==
    evaluation.evaluation_type \in {"comparison", "range", "ranking", "threshold"}

\* the if/elif chain inside the try block: what the parse method of the kind returns
\* or raises (the else branch, "continue", adds nothing)
parse_evaluation(evaluation) ==
    IF evaluation.evaluation_type = "comparison"
        THEN parse_comparison_evaluation(evaluation)
    ELSE IF evaluation.evaluation_type = "range"
        THEN parse_range_evaluation(evaluation)
    ELSE IF evaluation.evaluation_type = "ranking"
        THEN parse_ranking_evaluation(evaluation)
    ELSE IF evaluation.evaluation_type = "threshold"
        THEN parse_threshold_evaluation(evaluation)
    ELSE Return(<<>>)

\* the try block of one evaluation: the list it adds to all_constraints
\* (nothing when the kind is unsupported or the parse raised)
translate_one(evaluation) ==
    LET parsed == parse_evaluation(evaluation)
    IN  IF parsed.raised # "None" THEN <<>> ELSE parsed.constraints

\* mutant of translate_loop: the loop ends at the first evaluation whose parse raises
RECURSIVE translate_loop_stopping(_, _)
translate_loop_stopping(evals, k) ==
    IF k > Len(evals) THEN <<>>
    ELSE IF parse_evaluation(evals[k]).raised # "None" THEN <<>>
    ELSE translate_one(evals[k]) \o translate_loop_stopping(evals, k + 1)

RECURSIVE translate_loop(_, _)
translate_loop(evals, k) ==
    IF k > Len(evals) THEN <<>>
    ELSE translate_one(evals[k]) \o translate_loop(evals, k + 1)

\* mutant of translate_evaluations: all_constraints starts from the stored list
translate_evaluations_accumulating == constraints \o translate_loop(evaluations, 1)

\* the list translate_evaluations returns and stores in self.constraints: it is
\* built from "all_constraints = []", whatever self.constraints held
translate_evaluations == translate_loop(evaluations, 1)

\* a record written to the module's logger; the text of an exception is held as
\* the exception's type
LogRecord(levelname, message) == [levelname |-> levelname, message |-> message]

\* what the loop body writes to the logger for one evaluation: logger.warning in the
\* else branch, logger.error in the except clause, nothing otherwise
log_one(evaluation) ==
    IF ~supported(evaluation)
        THEN <<LogRecord("WARNING", <<"Unsupported evaluation type",
                                      evaluation.evaluation_type>>)>>
    ELSE IF parse_evaluation(evaluation).raised # "None"
        THEN <<LogRecord("ERROR", <<"Error processing evaluation from",
                                    evaluation.evaluator_id,
                                    parse_evaluation(evaluation).raised>>)>>
    ELSE <<>>

RECURSIVE log_loop(_, _)
log_loop(evals, k) ==
    IF k > Len(evals) THEN <<>>
    ELSE log_one(evals[k]) \o log_loop(evals, k + 1)

\* everything one translate_evaluations call writes to the logger: the records of
\* the loop, then logger.info with the two counts
translate_evaluations_log ==
    Append(log_loop(evaluations, 1),
           LogRecord("INFO", <<"Generated", Len(translate_evaluations),
                               "linear constraints from", Len(evaluations), "evaluations">>))

----------------------------------------------------------------------------
(* get_constraint_matrices *)

\* a two-dimensional ndarray: its shape and its rows
ndarray2(rows, n_cols) == [shape |-> <<Len(rows), n_cols>>, rows |-> rows]

\* mutant of select_constraints: the selected constraints in reverse order
RECURSIVE select_constraints_reversed(_, _)
select_constraints_reversed(cs, flag) ==
    IF cs = <<>> THEN <<>>
    ELSE select_constraints_reversed(Tail(cs), flag)
            \o (IF cs[1].is_equality = flag THEN <<cs[1]>> ELSE <<>>)

\* [c for c in self.constraints if c.is_equality == flag], in list order
RECURSIVE select_constraints(_, _)
select_constraints(cs, flag) ==
    IF cs = <<>> THEN <<>>
    ELSE (IF cs[1].is_equality = flag THEN <<cs[1]>> ELSE <<>>)
            \o select_constraints(Tail(cs), flag)

\* np.vstack([c.coefficients for c in cs]) when cs is not empty,
\* np.empty((0, self.n_projects * self.n_criteria)) when it is
constraint_matrix(cs) ==
    IF cs # <<>>
        THEN ndarray2([k \in 1..Len(cs) |-> cs[k].coefficients], Len(cs[1].coefficients))
        ELSE ndarray2(<<>>, n_projects * n_criteria)

\* np.array([c.bound for c in cs]), np.empty(0) when cs is empty
bound_vector(cs) == [k \in 1..Len(cs) |-> cs[k].bound]

\* the four arrays get_constraint_matrices returns for the stored list cs
constraint_matrices(cs) ==
    LET ineq_constraints == select_constraints(cs, FALSE)
        eq_constraints   == select_constraints(cs, TRUE)
    IN  [A_ineq |-> constraint_matrix(ineq_constraints),
         b_ineq |-> bound_vector(ineq_constraints),
         A_eq   |-> constraint_matrix(eq_constraints),
         b_eq   |-> bound_vector(eq_constraints)]

\* self.constraints once get_constraint_matrices has run its first two lines:
\* "if not self.constraints: self.translate_evaluations()"
constraints_ensured(cs) == IF cs = <<>> THEN translate_evaluations ELSE cs

----------------------------------------------------------------------------
(* Exact linear algebra for compute_vertices *)

Abs(x) == IF x < 0 THEN -x ELSE x

RECURSIVE Gcd(_, _)
Gcd(a, b) == IF b = 0 THEN Abs(a) ELSE Gcd(b, a % Abs(b))

RECURSIVE GcdSeq(_, _)
GcdSeq(xs, g) == IF xs = <<>> THEN g ELSE GcdSeq(Tail(xs), Gcd(g, xs[1]))

\* sum of f[k] for k in 1..n
RECURSIVE SumTo(_, _)
SumTo(f, n) == IF n = 0 THEN 0 ELSE f[n] + SumTo(f, n - 1)

\* a[1] * x[1] + ... + a[k] * x[k]
RECURSIVE dot_upto(_, _, _)
dot_upto(a, x, k) == IF k = 0 THEN 0 ELSE a[k] * x[k] + dot_upto(a, x, k - 1)

\* a @ x for two vectors of one length
dot(a, x) == dot_upto(a, x, Len(a))

\* the square matrix M without its first row and its column j
minor(M, j) ==
    [r \in 1..(Len(M) - 1) |->
        [c \in 1..(Len(M) - 1) |-> IF c < j THEN M[r + 1][c] ELSE M[r + 1][c + 1]]]

\* np.linalg.det(M) of a square integer matrix, by expansion along the first row
RECURSIVE det(_)
det(M) ==
    IF Len(M) = 0 THEN 1
    ELSE IF Len(M) = 1 THEN M[1][1]
    ELSE IF Len(M) = 2 THEN M[1][1] * M[2][2] - M[1][2] * M[2][1]
    ELSE SumTo([j \in 1..Len(M) |->
                    IF M[1][j] = 0 THEN 0
                    ELSE (IF j % 2 = 1 THEN 1 ELSE -1) * M[1][j] * det(minor(M, j))],
               Len(M))

\* M with its column i replaced by the vector b
replace_column(M, i, b) ==
    [r \in 1..Len(M) |-> [c \in 1..Len(M) |-> IF c = i THEN b[r] ELSE M[r][c]]]

\* a point: numerators over one positive denominator, in lowest terms
point(num, den) ==
    LET s == IF den < 0 THEN -1 ELSE 1
        g == GcdSeq(num, Abs(den))
    IN  [num |-> [i \in 1..Len(num) |-> (s * num[i]) \div g], den |-> Abs(den) \div g]

\* np.linalg.solve(A_subset, b_subset) for det(A_subset) != 0 (Cramer's rule)
solve(A_subset, b_subset) ==
    point([i \in 1..Len(A_subset) |-> det(replace_column(A_subset, i, b_subset))],
          det(A_subset))

\* itertools.combinations(range(lo, n), k) as a list, in its lexicographic order
RECURSIVE combinations(_, _, _)
combinations(lo, n, k) ==
    IF k = 0 THEN << <<>> >>
    ELSE IF n - lo < k THEN <<>>
    ELSE LET with_lo == combinations(lo + 1, n, k - 1)
         IN  [c \in 1..Len(with_lo) |-> <<lo>> \o with_lo[c]]
                \o combinations(lo + 1, n, k)

----------------------------------------------------------------------------
(* validate_constraints *)

\* the rows and columns of M at the given 0-based places
submatrix(M, row_places, col_places) ==
    [r \in 1..Len(row_places) |->
        [c \in 1..Len(col_places) |-> M[row_places[r] + 1][col_places[c] + 1]]]

\* some k rows and k columns of M have a non-zero determinant
has_rank(M, n_cols, k) ==
    LET row_sets == combinations(0, Len(M), k)
        col_sets == combinations(0, n_cols, k)
    IN  \E r \in 1..Len(row_sets), c \in 1..Len(col_sets) :
            det(submatrix(M, row_sets[r], col_sets[c])) # 0

\* np.linalg.matrix_rank(M) of an integer matrix with n_cols columns
matrix_rank(M, n_cols) ==
    LET smaller == IF Len(M) < n_cols THEN Len(M) ELSE n_cols
    IN  Cardinality({k \in 1..smaller : has_rank(M, n_cols, k)})

\* np.column_stack([A, b])
column_stack(A, b) == [r \in 1..Len(A) |-> Append(A[r], b[r])]

\* mutant of is_overconstrained: every constraint counts, not only the equalities
is_overconstrained_by_total(b_ineq, b_eq, n_variables) ==
    Len(b_ineq) + Len(b_eq) > n_variables

\* len(b_eq) > n_variables
is_overconstrained(b_ineq, b_eq, n_variables) == Len(b_eq) > n_variables

\* the dictionary validate_constraints returns for the stored list cs, once
\* get_constraint_matrices has run (np.linalg.matrix_rank does not raise on the
\* arrays get_constraint_matrices builds, so the bare except is never entered)
validate_constraints(cs) ==
    LET matrices    == constraint_matrices(cs)
        n_variables == n_projects * n_criteria
        overconstrained ==
            is_overconstrained(matrices.b_ineq, matrices.b_eq, n_variables)
        rank_A  == matrix_rank(matrices.A_eq.rows, matrices.A_eq.shape[2])
        rank_Ab == matrix_rank(column_stack(matrices.A_eq.rows, matrices.b_eq),
                               matrices.A_eq.shape[2] + 1)
    IN  [n_inequality_constraints |-> Len(matrices.b_ineq),
         n_equality_constraints   |-> Len(matrices.b_eq),
         total_constraints        |-> Len(matrices.b_ineq) + Len(matrices.b_eq),
         n_variables              |-> n_variables,
         is_overconstrained       |-> overconstrained,
         warnings                 |->
            (IF overconstrained
                THEN <<"System may be overconstrained (more equality constraints than variables)">>
                ELSE <<>>)
            \o (IF Len(matrices.b_eq) > 0 /\ rank_A # rank_Ab
                    THEN <<"Equality constraints appear to be inconsistent">>
                    ELSE <<>>)]

----------------------------------------------------------------------------
(* PolytopeVisualizer *)

None == [some |-> FALSE]

Some(v) == [some |-> TRUE, val |-> v]

\* mutant of satisfies_inequalities: the intersection point is not checked against
\* the rows it was not solved from
satisfies_inequalities_unchecked(A_ineq, b_ineq, vertex) == TRUE

\* np.all(self.A_ineq @ vertex <= self.b_ineq + 1e-10)
satisfies_inequalities(A_ineq, b_ineq, vertex) ==
    \A r \in 1..Len(b_ineq) : dot(A_ineq.rows[r], vertex.num) <= b_ineq[r] * vertex.den

\* all(bounds[i][0] <= vertex[i] <= bounds[i][1] for i in range(self.n_dimensions))
within_bounds(bounds, vertex) ==
    \A i \in 1..Len(vertex.num) :
        /\ bounds[i][1] * vertex.den <= vertex.num[i]
        /\ vertex.num[i] <= bounds[i][2] * vertex.den

\* the body of the loop over constraint_indices: the vertices it appends
candidate_vertex(viz, bounds, constraint_indices) ==
    LET A_subset == [k \in 1..Len(constraint_indices) |->
                        viz.A_ineq.rows[constraint_indices[k] + 1]]
        b_subset == [k \in 1..Len(constraint_indices) |->
                        viz.b_ineq[constraint_indices[k] + 1]]
    IN  IF det(A_subset) # 0
        THEN LET vertex == solve(A_subset, b_subset)
             IN  IF /\ satisfies_inequalities(viz.A_ineq, viz.b_ineq, vertex)
                    /\ within_bounds(bounds, vertex)
                 THEN <<vertex>> ELSE <<>>
        ELSE <<>>

\* for constraint_indices in itertools.combinations(range(n_constraints), n_dimensions):
\* the list vertices after the first k combinations
RECURSIVE candidate_vertices(_, _, _, _)
candidate_vertices(viz, bounds, combos, k) ==
    IF k = 0 THEN <<>>
    ELSE candidate_vertices(viz, bounds, combos, k - 1)
            \o candidate_vertex(viz, bounds, combos[k])

\* mutant of allclose: no vertex is taken for one already kept
allclose_never(vertex, existing) == FALSE

\* np.allclose(vertex, existing, atol=1e-8)
allclose(vertex, existing) == vertex = existing

\* the duplicate-removal loop: unique_vertices after the first n vertices are seen
RECURSIVE unique_vertices(_, _)
unique_vertices(vs, n) ==
    IF n = 0 THEN <<>>
    ELSE LET unique == unique_vertices(vs, n - 1)
         IN  IF \E k \in 1..Len(unique) : allclose(vs[n], unique[k])
             THEN unique
             ELSE Append(unique, vs[n])

\* bounds = [(-10, 10) for _ in range(self.n_dimensions)] when bounds is None
bounds_or_default(viz, bounds_arg) ==
    IF bounds_arg = None THEN [i \in 1..viz.n_dimensions |-> <<-DefaultBound, DefaultBound>>]
    ELSE bounds_arg.val

\* the array compute_vertices stores in self._vertices when nothing is cached: the
\* library branch needs "self.A_eq is None", and A_eq is always an array
enumerate_vertices(viz, bounds_arg) ==
    LET n_constraints == Len(viz.b_ineq)
        bounds == bounds_or_default(viz, bounds_arg)
        combos == combinations(0, n_constraints, viz.n_dimensions)
        vertices == candidate_vertices(viz, bounds, combos, Len(combos))
    IN  unique_vertices(vertices, Len(vertices))

\* mutant of library_path: taken when the system has no equality row
library_path_if_no_equalities(viz, pypoman_available) ==
    pypoman_available /\ Len(viz.b_eq) = 0

\* the guard of the pypoman branch, "PYPOMAN_AVAILABLE and self.A_eq is None";
\* pypoman_available is the outcome of the import at module load
library_path(viz, pypoman_available) ==
    pypoman_available /\ viz.A_eq = None

\* the array compute_vertices returns (it is self._vertices afterwards)
compute_vertices(viz, bounds_arg) ==
    IF viz.vertices_cache # None THEN viz.vertices_cache.val
    ELSE enumerate_vertices(viz, bounds_arg)

\* dimension_names: project-major, f"{project}_{criterion}"
dimension_names ==
    [d \in 1..(n_projects * n_criteria) |->
        <<projects[((d - 1) \div n_criteria) + 1], criteria[((d - 1) % n_criteria) + 1]>>]

\* PolytopeVisualizer.__init__(translator), given translator.constraints as it
\* stands after "if not translator.constraints: translator.translate_evaluations()"
polytope_visualizer(cs) ==
    LET matrices == constraint_matrices(constraints_ensured(cs))
    IN  [built           |-> TRUE,
         constraints     |-> cs,
         A_ineq          |-> matrices.A_ineq,
         b_ineq          |-> matrices.b_ineq,
         A_eq            |-> matrices.A_eq,
         b_eq            |-> matrices.b_eq,
         dimension_names |-> dimension_names,
         n_dimensions    |-> Len(dimension_names),
         vertices_cache  |-> None]

\* a < b for two fractions with positive denominators
frac_less(a, b) == a.num * b.den < b.num * a.den

\* coordinate i of a vertex, as a fraction in lowest terms
coord(vertex, i) ==
    LET g == Gcd(vertex.num[i], vertex.den)
    IN  [num |-> vertex.num[i] \div g, den |-> vertex.den \div g]

\* np.min(vertices, axis=0)[i]
axis_min(vertices, i) ==
    CHOOSE m \in {coord(vertices[k], i) : k \in 1..Len(vertices)} :
        \A k \in 1..Len(vertices) : ~frac_less(coord(vertices[k], i), m)

\* np.max(vertices, axis=0)[i]
axis_max(vertices, i) ==
    CHOOSE m \in {coord(vertices[k], i) : k \in 1..Len(vertices)} :
        \A k \in 1..Len(vertices) : ~frac_less(m, coord(vertices[k], i))

\* the dictionary compute_polytope_properties returns for the array compute_vertices
\* gave it (centroid, volume and surface_area are left out: present is TRUE exactly
\* when the centroid and bounding_box entries are)
polytope_properties(viz, vertices) ==
    [n_vertices      |-> Len(vertices),
     n_constraints   |-> Len(viz.b_ineq),
     n_dimensions    |-> viz.n_dimensions,
     dimension_names |-> viz.dimension_names,
     present         |-> Len(vertices) > 0,
     bounding_box    |->
        IF Len(vertices) > 0
        THEN [min |-> [i \in 1..viz.n_dimensions |-> axis_min(vertices, i)],
              max |-> [i \in 1..viz.n_dimensions |-> axis_max(vertices, i)]]
        ELSE [min |-> <<>>, max |-> <<>>]]

----------------------------------------------------------------------------
(* Inputs *)

\* sequences over S of length 0..n
SeqsUpTo(S, n) == UNION {[1..k -> S] : k \in 0..n}

\* entity names an evaluation may mention; "C" is unknown to a two-project translator
Names == {"A", "B", "C"}

\* values of a Range or a Threshold, in hundredths
Values == {40, 90}

\* the criteria field of an evaluation: unset, a criterion of the two-criteria
\* translator, or a name no translator has
CriteriaRefs == {"None", "cost", "zz"}

OperatorRefs == ComparisonOperator \cup {"None"}

NoVisualizer == [built |-> FALSE]

\* WizardBackend.__init__: nothing loaded, translator None (visualizer None is
\* visualizer = NoVisualizer)
NoBackend == [projects |-> <<>>, evaluations |-> <<>>, translator |-> "None"]

\* QualitativeEvaluationTranslator.__init__(projects, criteria)
translator_init(projects_arg, criteria_arg) ==
    /\ projects = projects_arg
    /\ criteria = criteria_or_default(criteria_arg)
    /\ evaluations = <<>>
    /\ constraints = <<>>

----------------------------------------------------------------------------
(* The parse methods called directly on a fresh translator, as the unit   *)
(* tests call them.  A parse method is a function of the translator's     *)
(* projects and criteria and of its argument, and touches neither: the    *)
(* argument is drawn with the translator, and each call applies one parse *)
(* method to it and records what it returned or raised.                   *)

InitParse ==
    /\ \E projects_arg \in {<<"A", "B">>, <<"A", "B", "C">>},
          criteria_arg \in {<<>>, <<"value", "cost">>} :
            translator_init(projects_arg, criteria_arg)
    /\ visualizer = NoVisualizer
    /\ backend = NoBackend
    /\ \E projs \in SeqsUpTo(Names, MaxRank), operator \in OperatorRefs,
          values \in SeqsUpTo(Values, 3), crit \in CriteriaRefs :
            call = [method |-> "none",
                    evaluation |-> QualitativeEvaluation("expert_1", "preference", projs,
                                        operator, values, DefaultConfidence, crit),
                    raised |-> "None", constraints |-> <<>>]

\* the argument of the call, built with the evaluation_type the method is for
Argument(evaluation_type) == [call.evaluation EXCEPT !.evaluation_type = evaluation_type]

Called(method, evaluation, ret) ==
    /\ call' = [method |-> method, evaluation |-> evaluation,
                raised |-> ret.raised, constraints |-> ret.constraints]
    /\ UNCHANGED <<backend, projects, criteria, evaluations, constraints, visualizer>>

CallParseComparison ==
    Called("parse_comparison_evaluation", Argument("comparison"),
           parse_comparison_evaluation(Argument("comparison")))

CallParseRange ==
    Called("parse_range_evaluation", Argument("range"),
           parse_range_evaluation(Argument("range")))

CallParseRanking ==
    Called("parse_ranking_evaluation", Argument("ranking"),
           parse_ranking_evaluation(Argument("ranking")))

CallParseThreshold ==
    Called("parse_threshold_evaluation", Argument("threshold"),
           parse_threshold_evaluation(Argument("threshold")))

NextParse ==
    \/ CallParseComparison
    \/ CallParseRange
    \/ CallParseRanking
    \/ CallParseThreshold

SpecParse == InitParse /\ [][NextParse]_vars

----------------------------------------------------------------------------
(* One translator and the visualizer built on it: evaluations are added,   *)
(* translated, turned into matrices, and a PolytopeVisualizer is built on  *)
(* the translator and asked for its vertices and properties.               *)

Evaluation(evaluation_type, projs, operator, values) ==
    QualitativeEvaluation("expert_1", evaluation_type, projs, operator, values,
                          DefaultConfidence, "None")

\* the evaluations given to add_evaluation; "B" is unknown to a one-project translator
EvalPool ==
    {Evaluation("comparison", <<"A", "B">>, ">", <<>>),
     Evaluation("comparison", <<"A", "B">>, "=", <<>>),
     Evaluation("range", <<"A">>, "None", <<40, 90>>),
     Evaluation("range", <<"B">>, "None", <<10, 60>>),
     Evaluation("range", <<"A">>, "None", <<90, 40>>),
     Evaluation("threshold", <<"A">>, ">=", <<40>>),
     Evaluation("threshold", <<"B">>, "<=", <<10>>)}

\* the (projects, criteria) arguments the translator is constructed with
TranslatorArgs ==
    {<< <<"A">>, <<>> >>, << <<"A", "B">>, <<>> >>, << <<"A">>, <<"value", "cost">> >>}

\* the bounds argument of compute_vertices: omitted, or the box [0, 0.5] per axis
BoundsArgs(n_dimensions) == {None, Some([i \in 1..n_dimensions |-> <<0, 50>>])}

\* compute_vertices has not been called on the visualizer since it was built
NoCall == [method |-> "none"]

Init ==
    /\ \E args \in TranslatorArgs : translator_init(args[1], args[2])
    /\ visualizer = NoVisualizer
    /\ backend = NoBackend
    /\ call = NoCall

\* translator.add_evaluation(evaluation)
AddEvaluation ==
    \E evaluation \in EvalPool :
        /\ Len(evaluations) < MaxEvals
        /\ evaluations' = Append(evaluations, evaluation)
        /\ UNCHANGED <<backend, projects, criteria, constraints, visualizer, call>>

\* translator.translate_evaluations()
TranslateEvaluations ==
    /\ constraints' = translate_evaluations
    /\ UNCHANGED <<backend, projects, criteria, evaluations, visualizer, call>>

\* translator.get_constraint_matrices(): returns constraint_matrices(constraints')
GetConstraintMatrices ==
    /\ constraints' = constraints_ensured(constraints)
    /\ UNCHANGED <<backend, projects, criteria, evaluations, visualizer, call>>

\* visualizer = PolytopeVisualizer(translator)
NewVisualizer ==
    LET cs == constraints_ensured(constraints)
    IN  /\ constraints' = constraints_ensured(cs)
        /\ visualizer' = polytope_visualizer(cs)
        /\ call' = NoCall
        /\ UNCHANGED <<backend, projects, criteria, evaluations>>

\* visualizer.compute_vertices(bounds): returns visualizer'.vertices_cache.val;
\* call' keeps the bounds argument the caller gave
ComputeVertices ==
    /\ visualizer.built
    /\ \E bounds_arg \in BoundsArgs(visualizer.n_dimensions) :
        /\ visualizer' = [visualizer EXCEPT
                             !.vertices_cache = Some(compute_vertices(visualizer, bounds_arg))]
        /\ call' = [method |-> "compute_vertices", bounds |-> bounds_arg]
    /\ UNCHANGED <<backend, projects, criteria, evaluations, constraints>>

\* visualizer.compute_polytope_properties(): calls compute_vertices() and returns
\* polytope_properties(visualizer', visualizer'.vertices_cache.val); call' is the
\* compute_vertices call it makes, which has no bounds argument
ComputePolytopeProperties ==
    /\ visualizer.built
    /\ visualizer' = [visualizer EXCEPT
                         !.vertices_cache = Some(compute_vertices(visualizer, None))]
    /\ call' = [method |-> "compute_vertices", bounds |-> None]
    /\ UNCHANGED <<backend, projects, criteria, evaluations, constraints>>

Next ==
    \/ AddEvaluation
    \/ TranslateEvaluations
    \/ GetConstraintMatrices
    \/ NewVisualizer
    \/ ComputeVertices
    \/ ComputePolytopeProperties

Spec == Init /\ [][Next]_vars

----------------------------------------------------------------------------
(* One translator given a batch of evaluations, sound and unsound ones    *)
(* mixed, which is translated and on which a PolytopeVisualizer is built. *)
(* The translator is constructed from what its caller passes in, a list   *)
(* with a repeated name included: __init__ checks nothing.                *)

\* the evaluations of a batch, for a translator of the projects "A" and "B"
BatchPool ==
    {Evaluation("comparison", <<"A", "B">>, ">", <<>>),
     Evaluation("comparison", <<"A", "B">>, ">=", <<>>),
     Evaluation("comparison", <<"A", "C">>, ">", <<>>),
     Evaluation("comparison", <<"A">>, ">", <<>>),
     Evaluation("range", <<"A">>, "None", <<40, 90>>),
     Evaluation("range", <<"A">>, "None", <<40>>),
     Evaluation("range", <<"A", "B">>, "None", <<40, 90>>),
     Evaluation("threshold", <<"B">>, ">=", <<40>>),
     Evaluation("threshold", <<"B">>, ">=", <<40, 90>>),
     Evaluation("threshold", <<"C">>, "<=", <<40>>),
     Evaluation("ranking", <<"B", "A">>, "None", <<>>),
     Evaluation("ranking", <<"A", "B", "C">>, "None", <<>>),
     Evaluation("ranking", <<"A">>, "None", <<>>),
     Evaluation("preference", <<"A", "B">>, "None", <<>>)}

\* the (projects, criteria) arguments of the constructor
BatchTranslatorArgs ==
    {<< <<"A", "B">>, <<>> >>,
     << <<"A", "B">>, <<"value", "cost">> >>,
     << <<"A", "A">>, <<>> >>}

InitBatch ==
    /\ \E args \in BatchTranslatorArgs : translator_init(args[1], args[2])
    /\ visualizer = NoVisualizer
    /\ backend = NoBackend
    /\ call = NoCall

\* translator.add_evaluation(evaluation)
BatchAddEvaluation ==
    \E evaluation \in BatchPool :
        /\ Len(evaluations) < MaxBatch
        /\ evaluations' = Append(evaluations, evaluation)
        /\ call' = [method |-> "add_evaluation"]
        /\ UNCHANGED <<backend, projects, criteria, constraints, visualizer>>

\* translator.translate_evaluations(): call' keeps the list it returned, the
\* records it wrote to the logger, and whether the call before it on the translator
\* was translate_evaluations too
BatchTranslateEvaluations ==
    /\ constraints' = translate_evaluations
    /\ call' = [method   |-> "translate_evaluations",
                returned |-> translate_evaluations,
                logged   |-> translate_evaluations_log,
                repeated |-> call.method = "translate_evaluations"]
    /\ UNCHANGED <<backend, projects, criteria, evaluations, visualizer>>

\* visualizer = PolytopeVisualizer(translator)
BatchNewVisualizer ==
    LET cs == constraints_ensured(constraints)
    IN  /\ constraints' = constraints_ensured(cs)
        /\ visualizer' = polytope_visualizer(cs)
        /\ call' = [method |-> "PolytopeVisualizer"]
        /\ UNCHANGED <<backend, projects, criteria, evaluations>>

NextBatch ==
    \/ BatchAddEvaluation
    \/ BatchTranslateEvaluations
    \/ BatchNewVisualizer

SpecBatch == InitBatch /\ [][NextBatch]_vars

----------------------------------------------------------------------------
(* One translator used as a caller uses it over time: evaluations are      *)
(* added between calls of translate_evaluations, get_constraint_matrices   *)
(* and validate_constraints, and call keeps what the last call returned.   *)

\* the evaluations given to add_evaluation
SessionPool ==
    {Evaluation("comparison", <<"A", "B">>, "=", <<>>),
     Evaluation("comparison", <<"B", "A">>, "=", <<>>),
     Evaluation("comparison", <<"A", "B">>, ">", <<>>),
     Evaluation("threshold", <<"A">>, ">=", <<40>>)}

\* the (projects, criteria) arguments of the constructor
SessionTranslatorArgs ==
    {<< <<"A", "B">>, <<>> >>, << <<"A", "B">>, <<"value", "cost">> >>}

InitSession ==
    /\ \E args \in SessionTranslatorArgs : translator_init(args[1], args[2])
    /\ visualizer = NoVisualizer
    /\ backend = NoBackend
    /\ call = NoCall

\* translator.add_evaluation(evaluation)
SessionAddEvaluation ==
    \E evaluation \in SessionPool :
        /\ Len(evaluations) < MaxEvals
        /\ evaluations' = Append(evaluations, evaluation)
        /\ call' = [method |-> "add_evaluation"]
        /\ UNCHANGED <<backend, projects, criteria, constraints, visualizer>>

\* translator.translate_evaluations()
SessionTranslateEvaluations ==
    /\ constraints' = translate_evaluations
    /\ call' = [method |-> "translate_evaluations", returned |-> translate_evaluations]
    /\ UNCHANGED <<backend, projects, criteria, evaluations, visualizer>>

\* translator.get_constraint_matrices()
SessionGetConstraintMatrices ==
    /\ constraints' = constraints_ensured(constraints)
    /\ call' = [method   |-> "get_constraint_matrices",
                returned |-> constraint_matrices(constraints_ensured(constraints))]
    /\ UNCHANGED <<backend, projects, criteria, evaluations, visualizer>>

\* translator.validate_constraints(): its first line is get_constraint_matrices()
SessionValidateConstraints ==
    /\ constraints' = constraints_ensured(constraints)
    /\ call' = [method   |-> "validate_constraints",
                returned |-> validate_constraints(constraints_ensured(constraints))]
    /\ UNCHANGED <<backend, projects, criteria, evaluations, visualizer>>

NextSession ==
    \/ SessionAddEvaluation
    \/ SessionTranslateEvaluations
    \/ SessionGetConstraintMatrices
    \/ SessionValidateConstraints

SpecSession == InitSession /\ [][NextSession]_vars

----------------------------------------------------------------------------
(* Constraint-sensitivity analysis: the properties of a visualizer are     *)
(* computed, and for one of its constraints a new translator is given all  *)
(* the others, a new visualizer is built on it and its properties are      *)
(* computed and compared.                                                  *)

\* mutant of temp_constraints: the constraints before the removed one are lost too
temp_constraints_after_only(cs, i) == SubSeq(cs, i + 2, Len(cs))

\* temp_translator.constraints once "if i != j: ...append(other_constraint)" has
\* run over enumerate(constraints)
temp_constraints(cs, i) == SubSeq(cs, 1, i) \o SubSeq(cs, i + 2, Len(cs))

\* mutant of enumerated: the loop takes the removed constraint out of the list it
\* goes through
enumerated_popping(cs, i) == SubSeq(cs, 1, i) \o SubSeq(cs, i + 2, Len(cs))

\* the list the loop goes through, after the loop: enumerate() and the append to
\* the other translator's list only read it
enumerated(cs, i) == cs

\* PolytopeVisualizer(temp_translator): the new translator has no evaluations, so
\* its translate_evaluations() leaves an empty constraint list empty
temp_visualizer(cs) ==
    LET matrices == constraint_matrices(cs)
    IN  [built           |-> TRUE,
         constraints     |-> cs,
         A_ineq          |-> matrices.A_ineq,
         b_ineq          |-> matrices.b_ineq,
         A_eq            |-> matrices.A_eq,
         b_eq            |-> matrices.b_eq,
         dimension_names |-> dimension_names,
         n_dimensions    |-> Len(dimension_names),
         vertices_cache  |-> None]

\* the evaluations of the analysed system
SystemPool ==
    {Evaluation("comparison", <<"A", "B">>, ">", <<>>),
     Evaluation("comparison", <<"A", "B">>, "=", <<>>),
     Evaluation("range", <<"A">>, "None", <<90, 40>>),
     Evaluation("threshold", <<"A">>, ">=", <<40>>),
     Evaluation("threshold", <<"B">>, "<=", <<10>>)}

\* the (projects, criteria) arguments of the constructor
SystemTranslatorArgs == {<< <<"A">>, <<>> >>, << <<"A", "B">>, <<>> >>}

InitSensitivity ==
    /\ \E args \in SystemTranslatorArgs : translator_init(args[1], args[2])
    /\ visualizer = NoVisualizer
    /\ backend = NoBackend
    /\ call = NoCall

\* translator.add_evaluation(evaluation)
SystemAddEvaluation ==
    \E evaluation \in SystemPool :
        /\ Len(evaluations) < MaxSystem
        /\ evaluations' = Append(evaluations, evaluation)
        /\ UNCHANGED <<backend, projects, criteria, constraints, visualizer, call>>

\* one iteration of the loop of analyze_constraint_sensitivity, for the constraint
\* at place i of visualizer.constraints, once the original properties are computed
SensitivityIteration ==
    /\ visualizer.built
    /\ visualizer.vertices_cache # None
    /\ \E i \in 0..(Len(visualizer.constraints) - 1) :
          LET temp       == temp_visualizer(temp_constraints(visualizer.constraints, i))
              vertices   == compute_vertices(temp, None)
              properties == polytope_properties(temp, vertices)
          IN  /\ call' = [method   |-> "analyze_constraint_sensitivity",
                          removed  |-> visualizer.constraints[i + 1],
                          temp     |-> [temp EXCEPT !.vertices_cache = Some(vertices)],
                          original_n_vertices |-> Len(visualizer.vertices_cache.val),
                          temp_n_vertices     |-> properties.n_vertices]
              /\ visualizer' = [visualizer EXCEPT
                                   !.constraints = enumerated(visualizer.constraints, i)]
    /\ UNCHANGED <<backend, projects, criteria, evaluations, constraints>>

NextSensitivity ==
    \/ SystemAddEvaluation
    \/ NewVisualizer
    \/ ComputePolytopeProperties
    \/ SensitivityIteration

SpecSensitivity == InitSensitivity /\ [][NextSensitivity]_vars

----------------------------------------------------------------------------
(* WizardBackend: an export of the wizard is loaded, a translator is       *)
(* created from it, and the backend's methods are called in any order.     *)
(* While the translator is None the four translator variables hold empty   *)
(* lists that nothing reads.                                               *)

\* the criteria create_translator gives every translator
WizardCriteria ==
    <<"Strategic Value", "Technical Complexity", "Market Impact",
      "Resource Requirement", "Innovation Level">>

\* an entry of the 'evaluations' list of an export; operator "None" is an absent key
WizardEvaluation(evaluation_type, projs, operator, values) ==
    [evaluator_id    |-> "expert_1",
     evaluation_type |-> evaluation_type,
     projects        |-> projs,
     operator        |-> operator,
     values          |-> values]

\* type_mapping.get(name)
type_mapping(name) ==
    CASE name = "COMPARISON" -> "comparison"
      [] name = "RANGE"      -> "range"
      [] name = "RANKING"    -> "ranking"
      [] name = "THRESHOLD"  -> "threshold"
      [] OTHER               -> "None"

\* operator_mapping.get(name)
operator_mapping(name) ==
    CASE name = "GREATER"       -> ">"
      [] name = "LESS"          -> "<"
      [] name = "EQUAL"         -> "="
      [] name = "GREATER_EQUAL" -> ">="
      [] name = "LESS_EQUAL"    -> "<="
      [] OTHER                  -> "None"

\* _convert_wizard_evaluation(eval_data): None for a type the mapping does not have
convert_wizard_evaluation(eval_data) ==
    IF type_mapping(eval_data.evaluation_type) = "None" THEN None
    ELSE Some(QualitativeEvaluation(eval_data.evaluator_id,
                                    type_mapping(eval_data.evaluation_type),
                                    eval_data.projects,
                                    IF eval_data.operator = "None" THEN "None"
                                    ELSE operator_mapping(eval_data.operator),
                                    eval_data.values, DefaultConfidence, "None"))

\* the loop of create_translator over self.evaluations from place k on: the
\* evaluations it hands to add_evaluation
RECURSIVE converted_evaluations(_, _)
converted_evaluations(evals, k) ==
    IF k > Len(evals) THEN <<>>
    ELSE LET evaluation == convert_wizard_evaluation(evals[k])
         IN  (IF evaluation = None THEN <<>> ELSE <<evaluation.val>>)
                \o converted_evaluations(evals, k + 1)

\* the dictionary every method returns from a failure
Failure(message) == [status |-> "error", message |-> message]

NotInitialized == Failure("Translator not initialized. Call create_translator() first.")

\* mutant of translator_missing: the check passes once projects are loaded
translator_missing_unless_loaded(b) == b.translator = "None" /\ b.projects = <<>>

\* "if not self.translator"
translator_missing(b) == b.translator = "None"

\* validation_result['is_feasible'] and the dictionary built around it; a missing
\* key is a KeyError, which the except clause of the method turns into a failure
\* whose message is str(e)
validation_report(validation_result) ==
    IF "is_feasible" \notin DOMAIN validation_result THEN Failure("'is_feasible'")
    ELSE [status             |-> "success",
          is_valid           |-> validation_result["is_feasible"],
          validation_details |-> validation_result]

\* the contents of the files load_data_from_wizard is given: no project at all, one
\* project, two projects; an evaluation of a type the backend does not map
WizardExports ==
    {[projects |-> <<>>, evaluations |-> <<>>],
     [projects |-> <<"A">>,
      evaluations |-> <<WizardEvaluation("THRESHOLD", <<"A">>, "GREATER_EQUAL", <<40>>)>>],
     [projects |-> <<"A">>,
      evaluations |-> <<WizardEvaluation("PREFERENCE", <<"A">>, "None", <<>>),
                        WizardEvaluation("THRESHOLD", <<"A">>, "GREATER", <<40>>),
                        WizardEvaluation("THRESHOLD", <<"A">>, "LESS_EQUAL", <<90>>)>>],
     [projects |-> <<"A", "B">>,
      evaluations |-> <<WizardEvaluation("COMPARISON", <<"A", "B">>, "EQUAL", <<>>)>>],
     [projects |-> <<"A", "B">>,
      evaluations |-> <<WizardEvaluation("COMPARISON", <<"A", "B">>, "EQUAL", <<>>),
                        WizardEvaluation("THRESHOLD", <<"B">>, "LESS_EQUAL", <<10>>)>>]}

InitWizard ==
    /\ backend = NoBackend
    /\ projects = <<>>
    /\ criteria = <<>>
    /\ evaluations = <<>>
    /\ constraints = <<>>
    /\ visualizer = NoVisualizer
    /\ call = NoCall

\* backend.load_data_from_wizard(data_file): the file holds one of the exports, or
\* cannot be read
LoadDataFromWizard ==
    /\ \/ \E data \in WizardExports :
            /\ backend' = [backend EXCEPT !.projects = data.projects,
                                          !.evaluations = data.evaluations]
            /\ call' = [method |-> "load_data_from_wizard",
                        returned |-> [status |-> "success",
                                      projects_loaded |-> Len(data.projects),
                                      evaluations_loaded |-> Len(data.evaluations)]]
       \/ /\ call' = [method |-> "load_data_from_wizard",
                      returned |-> Failure("No such file or directory")]
          /\ UNCHANGED backend
    /\ UNCHANGED <<projects, criteria, evaluations, constraints, visualizer>>

\* backend.create_translator()
CreateTranslator ==
    IF backend.projects = <<>>
    THEN /\ call' = [method |-> "create_translator",
                     returned |-> Failure("No projects loaded. Please load project data first.")]
         /\ UNCHANGED <<backend, projects, criteria, evaluations, constraints, visualizer>>
    ELSE LET converted == converted_evaluations(backend.evaluations, 1)
         IN  /\ backend' = [backend EXCEPT !.translator = "created"]
             /\ projects' = backend.projects
             /\ criteria' = WizardCriteria
             /\ evaluations' = converted
             /\ constraints' = <<>>
             /\ call' = [method |-> "create_translator",
                         returned |-> [status |-> "success",
                                       translator_created |-> TRUE,
                                       evaluations_converted |-> Len(converted),
                                       total_evaluations |-> Len(backend.evaluations)]]
             /\ UNCHANGED visualizer

\* backend.generate_constraint_matrices()
GenerateConstraintMatrices ==
    IF translator_missing(backend)
    THEN /\ call' = [method |-> "generate_constraint_matrices", returned |-> NotInitialized]
         /\ UNCHANGED <<backend, projects, criteria, evaluations, constraints, visualizer>>
    ELSE LET matrices == constraint_matrices(translate_evaluations)
         IN  /\ constraints' = translate_evaluations
             /\ call' = [method |-> "generate_constraint_matrices",
                         returned |-> [status |-> "success",
                                       A_ineq |-> matrices.A_ineq.rows,
                                       b_ineq |-> matrices.b_ineq,
                                       A_eq   |-> matrices.A_eq.rows,
                                       b_eq   |-> matrices.b_eq,
                                       n_inequality_constraints |-> Len(matrices.b_ineq),
                                       n_equality_constraints   |-> Len(matrices.b_eq),
                                       n_variables |-> matrices.A_ineq.shape[2]]]
             /\ UNCHANGED <<backend, projects, criteria, evaluations, visualizer>>

\* backend.create_visualizations(output_dir): the directory can be made or not; the
\* figures, each in a try block of its own, are left out of the returned dictionary;
\* the first of them calls compute_vertices() on the new visualizer
CreateVisualizations ==
    IF translator_missing(backend)
    THEN /\ call' = [method |-> "create_visualizations", returned |-> NotInitialized]
         /\ UNCHANGED <<backend, projects, criteria, evaluations, constraints, visualizer>>
    ELSE \/ LET cs  == constraints_ensured(constraints)
                viz == polytope_visualizer(cs)
            IN  /\ constraints' = cs
                /\ visualizer' = [viz EXCEPT
                                     !.vertices_cache = Some(compute_vertices(viz, None))]
                /\ call' = [method |-> "create_visualizations",
                            returned |-> [status |-> "success"]]
                /\ UNCHANGED <<backend, projects, criteria, evaluations>>
         \/ /\ call' = [method |-> "create_visualizations",
                        returned |-> Failure("Permission denied")]
            /\ UNCHANGED <<backend, projects, criteria, evaluations, constraints, visualizer>>

\* backend.validate_constraints()
WizardValidateConstraints ==
    IF translator_missing(backend)
    THEN /\ call' = [method |-> "validate_constraints", returned |-> NotInitialized]
         /\ UNCHANGED <<backend, projects, criteria, evaluations, constraints, visualizer>>
    ELSE LET cs == constraints_ensured(constraints)
         IN  /\ constraints' = cs
             /\ call' = [method |-> "validate_constraints",
                         returned |-> validation_report(validate_constraints(cs))]
             /\ UNCHANGED <<backend, projects, criteria, evaluations, visualizer>>

\* backend.export_for_optimization(output_file): the file can be written or not
ExportForOptimization ==
    IF translator_missing(backend)
    THEN /\ call' = [method |-> "export_for_optimization", returned |-> NotInitialized]
         /\ UNCHANGED <<backend, projects, criteria, evaluations, constraints, visualizer>>
    ELSE LET cs       == constraints_ensured(constraints)
             matrices == constraint_matrices(cs)
         IN  /\ constraints' = cs
             /\ \/ call' = [method |-> "export_for_optimization",
                            returned |-> [status |-> "success",
                                          n_variables |-> n_projects * n_criteria,
                                          n_inequality_constraints |-> Len(matrices.b_ineq),
                                          n_equality_constraints   |-> Len(matrices.b_eq)]]
                \/ call' = [method |-> "export_for_optimization",
                            returned |-> Failure("Permission denied")]
             /\ UNCHANGED <<backend, projects, criteria, evaluations, visualizer>>

NextWizard ==
    \/ LoadDataFromWizard
    \/ CreateTranslator
    \/ GenerateConstraintMatrices
    \/ CreateVisualizations
    \/ WizardValidateConstraints
    \/ ExportForOptimization

SpecWizard == InitWizard /\ [][NextWizard]_vars

----------------------------------------------------------------------------
(* Vocabulary of the properties of the parse methods *)

\* the 0-based place of a name in the translator's project list (names are unique
\* in every translator the properties are checked on)
EntityPos(proj) == (CHOOSE i \in 1..n_projects : projects[i] = proj) - 1

\* index(e, c) for the 0-based criterion j: entity_index * n_criteria + criterion_index
Coordinate(proj, j) == EntityPos(proj) * n_criteria + j

Known(proj) == \E i \in 1..n_projects : projects[i] = proj

NDims == n_projects * n_criteria

\* +1 at index(a, j), -1 at index(b, j), 0 everywhere else
PairVector(a, b, j) ==
    [i \in 1..NDims |-> IF i = Coordinate(a, j) + 1 THEN 1
                        ELSE IF i = Coordinate(b, j) + 1 THEN -1 ELSE 0]

\* s at index(e, j), 0 everywhere else
UnitVector(e, j, s) == [i \in 1..NDims |-> IF i = Coordinate(e, j) + 1 THEN s ELSE 0]

\* the 0-based criteria an evaluation applies to: all when its criteria field is
\* unset, the named one otherwise
Applicable(evaluation) ==
    IF evaluation.criteria = "None" THEN 0..(n_criteria - 1)
    ELSE {j \in 0..(n_criteria - 1) : criteria[j + 1] = evaluation.criteria}

\* the positions of a returned list whose constraint touches coordinate pos
Touching(cs, pos) == {k \in 1..Len(cs) : cs[k].coefficients[pos + 1] # 0}

ParsedComparison ==
    /\ call.method = "parse_comparison_evaluation"
    /\ Len(call.evaluation.projects) = 2
    /\ Known(call.evaluation.projects[1])
    /\ Known(call.evaluation.projects[2])

ParsedRange ==
    /\ call.method = "parse_range_evaluation"
    /\ Len(call.evaluation.projects) = 1
    /\ Known(call.evaluation.projects[1])
    /\ Len(call.evaluation.values) = 2

ParsedThreshold ==
    /\ call.method = "parse_threshold_evaluation"
    /\ Len(call.evaluation.projects) = 1
    /\ Known(call.evaluation.projects[1])
    /\ Len(call.evaluation.values) = 1
    /\ call.evaluation.operator \in {">=", "<="}

ParsedRanking ==
    /\ call.method = "parse_ranking_evaluation"
    /\ Len(call.evaluation.projects) >= 2
    /\ \A i \in 1..Len(call.evaluation.projects) : Known(call.evaluation.projects[i])

----------------------------------------------------------------------------
\* C1: parse_comparison_evaluation on a Comparison between two distinct known
\* entities a, b with operator '>' or '=' returns, for each criterion c the
\* evaluation applies to, exactly one constraint whose coefficient vector (of length
\* n_entities * n_criteria) has +1 at index(a,c), -1 at index(b,c) and 0 everywhere
\* else; every returned constraint has such a vector for some criterion, with bound
\* -0.01 and is_equality false for '>', bound 0 and is_equality true for '='.
C1_ComparisonRows ==
    (/\ ParsedComparison
     /\ call.evaluation.projects[1] # call.evaluation.projects[2]
     /\ call.evaluation.operator \in {">", "="})
    => LET a  == call.evaluation.projects[1]
           b  == call.evaluation.projects[2]
           cs == call.constraints
       IN  /\ call.raised = "None"
           /\ \A j \in Applicable(call.evaluation) :
                Cardinality({k \in 1..Len(cs) : cs[k].coefficients = PairVector(a, b, j)}) = 1
           /\ \A k \in 1..Len(cs) :
                /\ Len(cs[k].coefficients) = n_projects * n_criteria
                /\ \E j \in 0..(n_criteria - 1) : cs[k].coefficients = PairVector(a, b, j)
                /\ call.evaluation.operator = ">"
                      => cs[k].bound = -1 /\ cs[k].is_equality = FALSE
                /\ call.evaluation.operator = "="
                      => cs[k].bound = 0 /\ cs[k].is_equality = TRUE

\* a '>' Comparison of B with A on the two-criteria translator has returned its rows
C1_Witness ==
    /\ ParsedComparison
    /\ call.evaluation.projects = <<"B", "A">>
    /\ call.evaluation.operator = ">"
    /\ call.evaluation.criteria = "None"
    /\ n_criteria = 2
    /\ Len(call.constraints) = 2

\* C4: parse_range_evaluation on Range(e, [min, max]) with a known entity e returns,
\* for each criterion c it applies to, exactly two constraints touching index(e,c),
\* next to each other, lower then upper: the first has +1 at index(e,c) and bound
\* min, the second -1 at index(e,c) and bound -max, all other coefficients 0, both
\* inequalities.  The two vectors are independent: the -1 written for the upper
\* row after the lower row was built does not show in the lower row.
C4_RangeRows ==
    ParsedRange
    => LET e  == call.evaluation.projects[1]
           cs == call.constraints
       IN  /\ call.raised = "None"
           /\ \A j \in Applicable(call.evaluation) :
                /\ Cardinality(Touching(cs, Coordinate(e, j))) = 2
                /\ \E k \in 1..(Len(cs) - 1) :
                     /\ cs[k].coefficients = UnitVector(e, j, 1)
                     /\ cs[k].bound = call.evaluation.values[1]
                     /\ cs[k].is_equality = FALSE
                     /\ cs[k + 1].coefficients = UnitVector(e, j, -1)
                     /\ cs[k + 1].bound = -call.evaluation.values[2]
                     /\ cs[k + 1].is_equality = FALSE

\* Range(B, [0.4, 0.9]) on a two-criteria translator has returned its rows
C4_Witness ==
    /\ ParsedRange
    /\ call.evaluation.projects = <<"B">>
    /\ call.evaluation.values = <<40, 90>>
    /\ n_criteria = 2
    /\ Len(call.constraints) = 4

\* C5: parse_threshold_evaluation on Threshold(e, op, v) with a known entity e
\* returns, for each criterion c it applies to, exactly one constraint touching
\* index(e,c), an inequality: for '>=' it has +1 at index(e,c) and bound v, for '<='
\* it has -1 at index(e,c) and bound -v, all other coefficients 0.
C5_ThresholdRows ==
    ParsedThreshold
    => LET e  == call.evaluation.projects[1]
           v  == call.evaluation.values[1]
           cs == call.constraints
       IN  /\ call.raised = "None"
           /\ \A j \in Applicable(call.evaluation) :
                /\ Cardinality(Touching(cs, Coordinate(e, j))) = 1
                /\ \A k \in Touching(cs, Coordinate(e, j)) :
                     /\ cs[k].is_equality = FALSE
                     /\ call.evaluation.operator = ">="
                          => cs[k].coefficients = UnitVector(e, j, 1) /\ cs[k].bound = v
                     /\ call.evaluation.operator = "<="
                          => cs[k].coefficients = UnitVector(e, j, -1) /\ cs[k].bound = -v

\* Threshold(A, '<=', 0.9) has returned its rows
C5_Witness ==
    /\ ParsedThreshold
    /\ call.evaluation.operator = "<="
    /\ call.evaluation.values = <<90>>
    /\ call.evaluation.projects = <<"A">>
    /\ Len(call.constraints) = n_criteria

\* the Comparison(p_i, p_{i+1}, '>') of the i-th consecutive pair of a Ranking,
\* with the Ranking's evaluator, confidence and criteria
PairComparison(evaluation, i) ==
    QualitativeEvaluation(evaluation.evaluator_id, "comparison",
                          <<evaluation.projects[i], evaluation.projects[i + 1]>>, ">",
                          <<>>, evaluation.confidence, evaluation.criteria)

\* C6: parse_ranking_evaluation on a Ranking [p1..pk] (k >= 2, all entities known)
\* returns exactly (k-1) * (number of criteria the comparison loop runs through)
\* constraints, and the list is, in order, the concatenation for i = 1..k-1 of what
\* parse_comparison_evaluation returns for Comparison(p_i, p_{i+1}, '>').
C6_RankingDecomposition ==
    ParsedRanking
    => LET k  == Len(call.evaluation.projects)
           cs == call.constraints
       IN  /\ call.raised = "None"
           /\ Len(cs) = (k - 1) * n_criteria
           /\ \A i \in 1..(k - 1) :
                LET pair == parse_comparison_evaluation(PairComparison(call.evaluation, i))
                IN  /\ pair.raised = "None"
                    /\ Len(pair.constraints) = n_criteria
                    /\ \A m \in 1..n_criteria :
                         cs[(i - 1) * n_criteria + m] = pair.constraints[m]

\* a Ranking of three distinct entities has returned its rows
C6_Witness ==
    /\ ParsedRanking
    /\ call.evaluation.projects = <<"C", "A", "B">>
    /\ n_criteria = 2
    /\ Len(call.constraints) = 4

\* C7: for the same ordered pair (a, b), a Comparison with operator '<' returns
\* constraints with the same coefficients (+1 at a, -1 at b), the same bound
\* (-0.01), the same is_equality flag (false) and the same identifier as a
\* Comparison with operator '>', one for one.
C7_LessSameAsGreater ==
    (ParsedComparison /\ call.evaluation.operator = "<")
    => LET a  == call.evaluation.projects[1]
           b  == call.evaluation.projects[2]
           cs == call.constraints
           gt == parse_comparison_evaluation([call.evaluation EXCEPT !.operator = ">"])
       IN  /\ call.raised = "None"
           /\ gt.raised = "None"
           /\ Len(cs) = Len(gt.constraints)
           /\ Len(cs) >= 1
           /\ \A k \in 1..Len(cs) :
                /\ cs[k].coefficients = gt.constraints[k].coefficients
                /\ cs[k].bound = gt.constraints[k].bound
                /\ cs[k].is_equality = gt.constraints[k].is_equality
                /\ cs[k].constraint_id = gt.constraints[k].constraint_id
                /\ cs[k].bound = -1
                /\ cs[k].is_equality = FALSE
                /\ a # b => \E j \in 0..(n_criteria - 1) :
                                cs[k].coefficients = PairVector(a, b, j)

\* a '<' Comparison of A with B has returned its rows
C7_Witness ==
    /\ ParsedComparison
    /\ call.evaluation.operator = "<"
    /\ call.evaluation.projects = <<"A", "B">>
    /\ Len(call.constraints) = n_criteria

\* the number of constraints an evaluation restricted to one criterion yields
SingleCriterionCount(evaluation) ==
    IF evaluation.evaluation_type = "range" THEN 2
    ELSE IF evaluation.evaluation_type = "ranking" THEN Len(evaluation.projects) - 1
    ELSE 1

\* C8: the criterion set an evaluation applies to is all criteria when its criterion
\* field is unset and only the named criterion when it is set: with a named
\* criterion c a Comparison yields one constraint, a Range two, a Threshold one and
\* a Ranking of k entities k-1, and every nonzero coefficient lies at a coordinate
\* index(., c).
C8_CriterionFilter ==
    (/\ \/ ParsedComparison /\ call.evaluation.operator \in {">", "<", "="}
        \/ ParsedRange
        \/ ParsedThreshold
        \/ ParsedRanking
     /\ Applicable(call.evaluation) # {})
    => LET cs == call.constraints
       IN  /\ call.raised = "None"
           /\ Len(cs) = SingleCriterionCount(call.evaluation)
                            * Cardinality(Applicable(call.evaluation))
           /\ \A k \in 1..Len(cs) : \A i \in 1..Len(cs[k].coefficients) :
                cs[k].coefficients[i] # 0 => ((i - 1) % n_criteria) \in Applicable(call.evaluation)

----------------------------------------------------------------------------
(* Vocabulary of the properties of the geometry engine *)

\* compute_vertices has run on the visualizer: its array is visualizer.vertices_cache.val
VerticesComputed == visualizer.built /\ visualizer.vertices_cache # None

\* the constraints the visualizer was built from, by kind
VisualizerInequalities ==
    {visualizer.constraints[k] : k \in {m \in 1..Len(visualizer.constraints) :
                                            ~visualizer.constraints[m].is_equality}}

VisualizerEqualities ==
    {visualizer.constraints[k] : k \in {m \in 1..Len(visualizer.constraints) :
                                            visualizer.constraints[m].is_equality}}

\* a '>' comparison row between two different entities
StrictDominanceRow(c) ==
    /\ c.source_evaluation.evaluation_type = "comparison"
    /\ c.source_evaluation.operator = ">"
    /\ c.source_evaluation.projects[1] # c.source_evaluation.projects[2]

\* an integer count of hundredths as a fraction
Hundredths(x) == [num |-> x, den |-> 1]

\* the evaluations are exactly one Range [min, max] with min < max per entity
OneRangePerEntity ==
    /\ Len(evaluations) = n_projects
    /\ \A k \in 1..Len(evaluations) :
        /\ evaluations[k].evaluation_type = "range"
        /\ Len(evaluations[k].projects) = 1
        /\ Len(evaluations[k].values) = 2
        /\ evaluations[k].values[1] < evaluations[k].values[2]
    /\ \A i \in 1..n_projects :
        \E k \in 1..Len(evaluations) : evaluations[k].projects = <<projects[i]>>

\* the Range given for the i-th entity
RangeOf(i) ==
    evaluations[CHOOSE k \in 1..Len(evaluations) : evaluations[k].projects = <<projects[i]>>]

----------------------------------------------------------------------------
\* C2: the constraint emitted for Comparison(a, b, '>') on criterion c encodes
\* x_a - x_b >= 0.01 under the A_ineq * x <= b_ineq convention: every vertex v that
\* compute_vertices returns for a system containing that row satisfies
\* v[index(a,c)] - v[index(b,c)] >= 0.01 - 1e-10.  (The row has +1 at index(a,c), -1
\* at index(b,c) and 0 elsewhere, so its product with v is that difference.)
C2_StrictDominanceHolds ==
    VerticesComputed
    => \A c \in VisualizerInequalities :
         StrictDominanceRow(c)
         => \A k \in 1..Len(visualizer.vertices_cache.val) :
              LET v == visualizer.vertices_cache.val[k]
              IN  dot(c.coefficients, v.num) >= Epsilon * v.den

\* C3: in a single-criterion space where each entity e carries exactly one
\* Range(e, [min_e, max_e]) with min_e < max_e and there are no other evaluations,
\* the builder yields 2 inequality rows per entity and 0 equality rows, and the
\* geometry engine (compute_polytope_properties, default bounds) returns a non-empty
\* vertex set whose bounding box is exactly min = [min_e], max = [max_e] per entity.
C3_RangeBoundingBox ==
    (/\ n_criteria = 1
     /\ OneRangePerEntity
     /\ visualizer.built
     /\ visualizer.constraints = translate_evaluations
     /\ visualizer.vertices_cache = Some(enumerate_vertices(visualizer, None)))
    => LET properties == polytope_properties(visualizer, visualizer.vertices_cache.val)
       IN  /\ Len(visualizer.b_ineq) = 2 * n_projects
           /\ Len(visualizer.b_eq) = 0
           /\ properties.n_vertices > 0
           /\ \A i \in 1..n_projects :
                /\ properties.bounding_box.min[i] = Hundredths(RangeOf(i).values[1])
                /\ properties.bounding_box.max[i] = Hundredths(RangeOf(i).values[2])

\* C9: every vertex v returned by compute_vertices satisfies every inequality row
\* of the constraint system the visualizer was built from, A_ineq * v <= b_ineq +
\* 1e-10 componentwise, and v has exactly n_dimensions coordinates.
C9_VerticesSatisfyInequalities ==
    VerticesComputed
    => \A k \in 1..Len(visualizer.vertices_cache.val) :
         LET v == visualizer.vertices_cache.val[k]
         IN  /\ Len(v.num) = n_projects * n_criteria
             /\ Len(v.num) = visualizer.n_dimensions
             /\ v.den > 0
             /\ \A c \in VisualizerInequalities :
                  dot(c.coefficients, v.num) <= c.bound * v.den

\* compute_vertices has returned two vertices of a system with more inequality rows
\* than dimensions
C9_Witness ==
    /\ VerticesComputed
    /\ Len(visualizer.vertices_cache.val) >= 2
    /\ Len(visualizer.b_ineq) > visualizer.n_dimensions
    /\ visualizer.n_dimensions = 2

\* C10: when the constraint system contains equality constraints, every vertex v
\* returned by compute_vertices satisfies A_eq * v = b_eq (within 1e-10).
C10_VerticesSatisfyEqualities ==
    VerticesComputed
    => \A c \in VisualizerEqualities :
         \A k \in 1..Len(visualizer.vertices_cache.val) :
            LET v == visualizer.vertices_cache.val[k]
            IN  dot(c.coefficients, v.num) = c.bound * v.den

\* the vertices the combinations loop of compute_vertices collects, before the
\* duplicate removal, when it runs on the visualizer with the given bounds argument
Candidates(bounds_arg) ==
    LET combos == combinations(0, Len(visualizer.b_ineq), visualizer.n_dimensions)
    IN  candidate_vertices(visualizer, bounds_or_default(visualizer, bounds_arg),
                           combos, Len(combos))

\* C11: no two distinct vertices in the set returned by compute_vertices are within
\* 1e-8 of each other in every coordinate: two entries of the returned array at
\* different places never coincide (the deduplication keeps one representative per
\* class of coinciding candidates).
C11_NoCoincidingVertices ==
    VerticesComputed
    => LET vertices == visualizer.vertices_cache.val
       IN  \A k, m \in 1..Len(vertices) :
             k # m => \E i \in 1..visualizer.n_dimensions :
                         coord(vertices[k], i) # coord(vertices[m], i)

\* compute_vertices has returned fewer vertices than its loop collected: at least
\* two combinations of rows met in the same point
C11_Witness ==
    /\ VerticesComputed
    /\ call.method = "compute_vertices"
    /\ visualizer.vertices_cache = Some(enumerate_vertices(visualizer, call.bounds))
    /\ Len(visualizer.vertices_cache.val) >= 2
    /\ Len(Candidates(call.bounds)) > Len(visualizer.vertices_cache.val)

\* the lower and upper end, on axis i, of the search box of the last compute_vertices
\* call: its bounds argument, or [-10, 10] when the caller gave none
CallBoundLow(i) ==
    Hundredths(IF call.bounds = None THEN -DefaultBound ELSE call.bounds.val[i][1])

CallBoundHigh(i) ==
    Hundredths(IF call.bounds = None THEN DefaultBound ELSE call.bounds.val[i][2])

\* C12: for any sequence of compute_vertices calls on one PolytopeVisualizer, every
\* vertex returned by a call made with bounds B (default [-10, 10] per axis when
\* bounds is omitted) lies within B on every axis, including calls made after an
\* earlier call that used different bounds.
C12_VerticesWithinCallBounds ==
    (VerticesComputed /\ call.method = "compute_vertices")
    => \A k \in 1..Len(visualizer.vertices_cache.val) :
         \A i \in 1..visualizer.n_dimensions :
            LET x == coord(visualizer.vertices_cache.val[k], i)
            IN  /\ ~frac_less(x, CallBoundLow(i))
                /\ ~frac_less(CallBoundHigh(i), x)

\* the rows at the places S of the visualizer's inequality system add up to the
\* zero vector while their bounds add up to less than zero: no point satisfies them all
Contradictory(S) ==
    /\ \A i \in 1..visualizer.n_dimensions :
          SumTo([r \in 1..Len(visualizer.b_ineq) |->
                    IF r \in S THEN visualizer.A_ineq.rows[r][i] ELSE 0],
                Len(visualizer.b_ineq)) = 0
    /\ SumTo([r \in 1..Len(visualizer.b_ineq) |->
                 IF r \in S THEN visualizer.b_ineq[r] ELSE 0],
             Len(visualizer.b_ineq)) < 0

\* the visualizer's inequality system is infeasible, as two or three of its rows show
InfeasibleSystem ==
    \E r1, r2, r3 \in 1..Len(visualizer.b_ineq) :
        r1 < r2 /\ r2 <= r3 /\ Contradictory({r1, r2, r3})

\* C13: for a constraint system that is infeasible (e.g. two disjoint Ranges on the
\* same entity) or that has fewer inequality rows than dimensions (including no
\* constraints at all), compute_vertices returns an empty vertex set and
\* compute_polytope_properties returns n_vertices = 0 with no centroid, bounding_box,
\* volume or surface_area entries.
C13_EmptyPolytope ==
    (/\ VerticesComputed
     /\ InfeasibleSystem \/ Len(visualizer.b_ineq) < visualizer.n_dimensions)
    => LET properties == polytope_properties(visualizer, visualizer.vertices_cache.val)
       IN  /\ visualizer.vertices_cache.val = <<>>
           /\ properties.n_vertices = 0
           /\ ~properties.present
           /\ properties.bounding_box = [min |-> <<>>, max |-> <<>>]
           /\ properties.n_constraints = Len(visualizer.b_ineq)

\* compute_vertices has run on an infeasible system with at least as many rows as
\* dimensions, some of which meet in a point
C13_Witness ==
    /\ VerticesComputed
    /\ InfeasibleSystem
    /\ Len(visualizer.b_ineq) > visualizer.n_dimensions
    /\ \E r1, r2 \in 1..Len(visualizer.b_ineq) :
          /\ visualizer.n_dimensions = 2
          /\ det(<<visualizer.A_ineq.rows[r1], visualizer.A_ineq.rows[r2]>>) # 0

----------------------------------------------------------------------------
(* Vocabulary of the properties of translate_evaluations *)

\* translate_evaluations was the last call made on the translator
Translated == call.method = "translate_evaluations"

\* the evaluation has the number of entities and values its kind asks for, and
\* every entity it names is one of the translator's
WellFormed(evaluation) ==
    /\ \A i \in 1..Len(evaluation.projects) : Known(evaluation.projects[i])
    /\ CASE evaluation.evaluation_type = "comparison" -> Len(evaluation.projects) = 2
          [] evaluation.evaluation_type = "range" ->
                Len(evaluation.projects) = 1 /\ Len(evaluation.values) = 2
          [] evaluation.evaluation_type = "threshold" ->
                Len(evaluation.projects) = 1 /\ Len(evaluation.values) = 1
          [] evaluation.evaluation_type = "ranking" -> Len(evaluation.projects) >= 2
          [] OTHER -> TRUE

\* the evaluation is of a kind that has a parse method
SupportedKind(evaluation) ==
    evaluation.evaluation_type \in {"comparison", "range", "ranking", "threshold"}

\* the evaluation translates successfully
Translates(evaluation) == SupportedKind(evaluation) /\ WellFormed(evaluation)

\* the constraint list of one evaluation: what the parse method of its kind returns
\* when it is called on the evaluation alone
ConstraintsOf(evaluation) ==
    CASE evaluation.evaluation_type = "comparison" ->
            parse_comparison_evaluation(evaluation).constraints
      [] evaluation.evaluation_type = "range" ->
            parse_range_evaluation(evaluation).constraints
      [] evaluation.evaluation_type = "threshold" ->
            parse_threshold_evaluation(evaluation).constraints
      [] evaluation.evaluation_type = "ranking" ->
            parse_ranking_evaluation(evaluation).constraints

\* the constraint lists of the evaluations k.. that translate, one after the other
RECURSIVE SuccessfulConstraints(_)
SuccessfulConstraints(k) ==
    IF k > Len(evaluations) THEN <<>>
    ELSE (IF Translates(evaluations[k]) THEN ConstraintsOf(evaluations[k]) ELSE <<>>)
            \o SuccessfulConstraints(k + 1)

\* C14: translate_evaluations never raises for any stored list of evaluations
\* (including ones with unknown entities, wrong arity, or an unsupported kind such as
\* PREFERENCE): it returns, in evaluation order, the concatenation of the constraint
\* lists of exactly those evaluations that translate successfully, so one bad
\* evaluation removes no constraint of any other evaluation.
C14_BatchKeepsSuccessful ==
    Translated => call.returned = SuccessfulConstraints(1)

\* translate_evaluations has returned the constraints of an evaluation that follows
\* one whose parse raised
C14_Witness ==
    /\ Translated
    /\ \E k, m \in 1..Len(evaluations) :
          /\ k < m
          /\ parse_evaluation(evaluations[k]).raised # "None"
          /\ Translates(evaluations[m])
          /\ ConstraintsOf(evaluations[m]) # <<>>
          /\ call.returned = ConstraintsOf(evaluations[m])

\* the number of constraints a sound evaluation stands for, and zero for one that
\* names an unknown entity, has the wrong arity or is of an unsupported kind
ExpectedRows(evaluation) ==
    IF ~Translates(evaluation) THEN 0
    ELSE CASE evaluation.evaluation_type = "comparison" ->
                IF evaluation.operator \in {">", "<", "="} THEN n_criteria ELSE 0
           [] evaluation.evaluation_type = "range" -> 2 * n_criteria
           [] evaluation.evaluation_type = "threshold" ->
                IF evaluation.operator \in {">=", "<="} THEN n_criteria ELSE 0
           [] evaluation.evaluation_type = "ranking" ->
                (Len(evaluation.projects) - 1) * n_criteria

\* a Ranking whose first pair is of known entities and which names an unknown one later
RankingBrokenLate(evaluation) ==
    /\ evaluation.evaluation_type = "ranking"
    /\ Len(evaluation.projects) >= 3
    /\ Known(evaluation.projects[1]) /\ Known(evaluation.projects[2])
    /\ \E i \in 3..Len(evaluation.projects) : ~Known(evaluation.projects[i])

\* C15: an evaluation that references an entity not in the VariableSpace, or has the
\* wrong number of entities/values for its kind, fails as a whole: it contributes
\* zero constraints to the batch result, also when it is a Ranking whose earlier
\* consecutive pairs are valid and only a later entity is unknown.  (The result has
\* exactly the rows of the sound evaluations, and every row is over known entities.)
C15_BadEvaluationContributesNothing ==
    Translated
    => /\ Len(call.returned)
            = SumTo([k \in 1..Len(evaluations) |-> ExpectedRows(evaluations[k])],
                    Len(evaluations))
       /\ \A m \in 1..Len(call.returned) :
            /\ WellFormed(call.returned[m].source_evaluation)
            /\ \A k \in 1..Len(evaluations) :
                  ~WellFormed(evaluations[k])
                  => call.returned[m].source_evaluation # evaluations[k]

\* translate_evaluations has returned the rows of a sound evaluation from a batch
\* that also holds a Ranking with a valid first pair and an unknown later entity
C15_Witness ==
    /\ Translated
    /\ call.returned # <<>>
    /\ \E k \in 1..Len(evaluations) : RankingBrokenLate(evaluations[k])

\* the places of the batch whose evaluation failed to translate
FailedPlaces == {k \in 1..Len(evaluations) : ~Translates(evaluations[k])}

\* something in the value translate_evaluations returned identifies the evaluation
IdentifiedInReturn(evaluation) ==
    \E m \in 1..Len(call.returned) : call.returned[m].source_evaluation = evaluation

\* C16: when some evaluations of a batch fail to translate, the caller receives, as
\* structured data returned alongside the successfully produced constraints, a
\* report identifying which evaluations failed and why; failures are not merely
\* written to a process-wide log.  (Every failed evaluation is identified by
\* something in the returned value, not only by a record of the logger.)
C16_FailuresReturned ==
    Translated => \A k \in FailedPlaces : IdentifiedInReturn(evaluations[k])

\* the evaluation names a criterion, and the translator has no criterion of that name
UnknownCriterion(evaluation) ==
    /\ evaluation.criteria # "None"
    /\ \A j \in 1..n_criteria : criteria[j] # evaluation.criteria

\* C17: an evaluation whose named criterion is not one of the VariableSpace's
\* criteria is rejected: its translation fails and it contributes no constraints; it
\* is never silently translated as if the criterion were valid or unset.
C17_UnknownCriterionRejected ==
    (call.method # "none" /\ UnknownCriterion(call.evaluation))
    => /\ call.raised # "None"
       /\ call.constraints = <<>>

\* C18: constructing a VariableSpace (QualitativeEvaluationTranslator) with
\* duplicate entity names is fatal: the constructor aborts instead of returning a
\* translator in which two entity positions share one name and therefore one
\* coordinate.  (No translator exists whose project list holds a name twice, nor one
\* in which two places of the list are given the same coordinate.)
C18_NoDuplicateEntityNames ==
    \A i, k \in 1..n_projects :
        i # k => /\ projects[i] # projects[k]
                 /\ position(project_index(projects[i]), 0)
                        # position(project_index(projects[k]), 0)

----------------------------------------------------------------------------
(* Vocabulary of the properties of the coordinate layout *)

\* no entity name and no criterion name is given twice
UniqueNames ==
    /\ \A i, k \in 1..n_projects : i # k => projects[i] # projects[k]
    /\ \A j, k \in 1..n_criteria : j # k => criteria[j] # criteria[k]

\* the criterion a constraint is for: the last part of its constraint_id
CriterionOf(c) == c.constraint_id[Len(c.constraint_id)]

\* the entities a constraint is about: the projects of the evaluation it came from
EntitiesOf(c) ==
    {c.source_evaluation.projects[q] : q \in 1..Len(c.source_evaluation.projects)}

\* C19: for unique entity and criterion names, the coordinate used for (entity i,
\* criterion j) in every emitted coefficient vector is i*n_criteria + j, a bijection
\* onto 0..n_entities*n_criteria-1, and the geometry engine labels dimensions in the
\* same order (dimension_names[i*n_criteria + j] is the label of entity i and
\* criterion j), so that n_dimensions = n_entities*n_criteria = the column count of
\* both matrices.
C19_CoordinateLayout ==
    (UniqueNames /\ visualizer.built)
    => /\ visualizer.n_dimensions = n_projects * n_criteria
       /\ visualizer.A_ineq.shape[2] = visualizer.n_dimensions
       /\ visualizer.A_eq.shape[2] = visualizer.n_dimensions
       /\ \A d \in 0..(visualizer.n_dimensions - 1) :
            Cardinality({ij \in (0..(n_projects - 1)) \X (0..(n_criteria - 1)) :
                            ij[1] * n_criteria + ij[2] = d}) = 1
       /\ \A i \in 0..(n_projects - 1), j \in 0..(n_criteria - 1) :
            /\ visualizer.dimension_names[i * n_criteria + j + 1]
                    = <<projects[i + 1], criteria[j + 1]>>
            /\ \A k \in 1..Len(visualizer.constraints) :
                  LET c == visualizer.constraints[k]
                  IN  /\ Len(c.coefficients) = visualizer.n_dimensions
                      /\ c.coefficients[i * n_criteria + j + 1] # 0
                            <=> /\ projects[i + 1] \in EntitiesOf(c)
                                /\ criteria[j + 1] = CriterionOf(c)

\* a visualizer has been built on constraints of a translator with two entities and
\* two criteria
C19_Witness ==
    /\ UniqueNames
    /\ n_projects = 2
    /\ n_criteria = 2
    /\ visualizer.built
    /\ Len(visualizer.b_ineq) >= 2
    /\ \E k \in 1..Len(visualizer.constraints) :
          Cardinality(EntitiesOf(visualizer.constraints[k])) = 2

----------------------------------------------------------------------------
\* C20: calling translate_evaluations twice in a row on an unchanged evaluation list
\* yields identical constraint lists (same length, order, coefficients, bounds,
\* equality flags and ids), and the translator's stored constraint list after the
\* second call equals the one after the first: constraints are replaced, never
\* accumulated across calls.
C20_TranslateTwice ==
    [][(call.method = "translate_evaluations" /\ call'.method = "translate_evaluations")
       => /\ evaluations' = evaluations
          /\ call'.returned = call.returned
          /\ constraints' = constraints
          /\ constraints' = call'.returned]_vars

\* translate_evaluations has been called a second time in a row on a batch that
\* yields constraints
C20_Witness ==
    /\ Translated
    /\ call.repeated
    /\ Len(call.returned) >= 2
    /\ constraints = call.returned

----------------------------------------------------------------------------
(* Vocabulary of the properties of get_constraint_matrices and            *)
(* validate_constraints                                                    *)

\* the places of the stored constraint list whose constraint has the given flag
PlacesWith(flag) == {i \in 1..Len(constraints) : constraints[i].is_equality = flag}

\* the k-th smallest place of a set of places
NthPlace(places, k) ==
    CHOOSE i \in places : Cardinality({j \in places : j <= i}) = k

\* the matrix A and vector b hold exactly the stored constraints with the given
\* flag, one row each, in the order of the stored list
PartitionOf(A, b, flag) ==
    /\ A.shape = <<Cardinality(PlacesWith(flag)), n_projects * n_criteria>>
    /\ Len(A.rows) = Cardinality(PlacesWith(flag))
    /\ Len(b) = Cardinality(PlacesWith(flag))
    /\ \A k \in 1..Cardinality(PlacesWith(flag)) :
          /\ A.rows[k] = constraints[NthPlace(PlacesWith(flag), k)].coefficients
          /\ Len(A.rows[k]) = n_projects * n_criteria
          /\ b[k] = constraints[NthPlace(PlacesWith(flag), k)].bound

\* C21: get_constraint_matrices returns an order-preserving partition of the stored
\* constraint list: the rows of (A_ineq, b_ineq) are exactly the constraints with
\* is_equality false in their input order, the rows of (A_eq, b_eq) exactly those
\* with is_equality true in their input order, and both A_ineq and A_eq have
\* n_entities*n_criteria columns even when they have zero rows.
C21_OrderPreservingPartition ==
    call.method = "get_constraint_matrices"
    => /\ PartitionOf(call.returned.A_ineq, call.returned.b_ineq, FALSE)
       /\ PartitionOf(call.returned.A_eq, call.returned.b_eq, TRUE)

\* get_constraint_matrices has returned matrices for a stored list in which an
\* inequality stands between two equalities with different coefficients
C21_Witness ==
    /\ call.method = "get_constraint_matrices"
    /\ \E i, j, k \in 1..Len(constraints) :
          /\ i < j /\ j < k
          /\ constraints[i].is_equality
          /\ ~constraints[j].is_equality
          /\ constraints[k].is_equality
          /\ constraints[i].coefficients # constraints[k].coefficients

\* validate_constraints was the last call made on the translator
Validated == call.method = "validate_constraints"

OverconstrainedWarning ==
    "System may be overconstrained (more equality constraints than variables)"

InconsistentWarning == "Equality constraints appear to be inconsistent"

\* the warnings list of the last validate_constraints call holds the text
Warned(text) ==
    \E w \in 1..Len(call.returned.warnings) : call.returned.warnings[w] = text

\* C22: validate_constraints reports is_overconstrained = true exactly when the
\* number of equality constraints exceeds the variable count n_entities*n_criteria
\* (inequality constraints never count towards it), and the result always carries
\* the counts and a warnings list.
C22_OverconstrainedFlag ==
    Validated
    => /\ call.returned.is_overconstrained
            <=> Cardinality(PlacesWith(TRUE)) > n_projects * n_criteria
       /\ call.returned.is_overconstrained <=> Warned(OverconstrainedWarning)
       /\ call.returned.n_equality_constraints = Cardinality(PlacesWith(TRUE))
       /\ call.returned.n_inequality_constraints = Cardinality(PlacesWith(FALSE))
       /\ call.returned.total_constraints = Len(constraints)
       /\ call.returned.n_variables = n_projects * n_criteria
       /\ DOMAIN call.returned.warnings = 1..Len(call.returned.warnings)

\* validate_constraints has reported an overconstrained system
C22_Witness ==
    /\ Validated
    /\ call.returned.is_overconstrained
    /\ call.returned.n_equality_constraints > call.returned.n_variables

----------------------------------------------------------------------------
(* Vocabulary of the properties of the constraint-sensitivity analysis *)

\* the last step was an iteration of the sensitivity analysis
Analysed == call.method = "analyze_constraint_sensitivity"

\* the removed constraint is not tight at the vertex (an equality is no row of the
\* inequality system, so removing it takes no row away)
OffRemoved(vertex) ==
    \/ call.removed.is_equality
    \/ dot(call.removed.coefficients, vertex.num) # call.removed.bound * vertex.den

----------------------------------------------------------------------------
\* C25: after any sequence of add_evaluation, translate_evaluations and
\* get_constraint_matrices calls, the matrices get_constraint_matrices returns are
\* the partition of the translation of all the evaluations added so far; an
\* evaluation added after an earlier call produced a non-empty constraint list is
\* reflected in the next call.
C25_MatricesReflectAllEvaluations ==
    call.method = "get_constraint_matrices"
    => call.returned = constraint_matrices(translate_evaluations)

\* C27: validate_constraints never emits the warning 'Equality constraints appear
\* to be inconsistent': every equality the translator emits has bound 0, so the
\* rank of A_eq equals the rank of [A_eq | b_eq].
C27_NeverInconsistentWarning ==
    Validated
    => LET matrices == constraint_matrices(constraints)
       IN  /\ ~Warned(InconsistentWarning)
           /\ \A k \in 1..Len(matrices.b_eq) : matrices.b_eq[k] = 0
           /\ matrix_rank(matrices.A_eq.rows, matrices.A_eq.shape[2])
                = matrix_rank(column_stack(matrices.A_eq.rows, matrices.b_eq),
                              matrices.A_eq.shape[2] + 1)

\* a validated system with two equalities on the same pair, in opposite directions
C27_Witness ==
    /\ Validated
    /\ call.returned.n_equality_constraints >= 2
    /\ \E j, k \in 1..Len(constraints) :
          /\ constraints[j].is_equality
          /\ constraints[k].is_equality
          /\ constraints[j].coefficients # constraints[k].coefficients

----------------------------------------------------------------------------
\* C26: a Comparison whose operator is none of '>', '<', '=' and a Threshold whose
\* operator is none of '>=', '<=' (such as the '>' and '<' the natural-language
\* parser produces) is not a failure: with the right number of known entities and
\* values the parse method returns normally, raises nothing, and returns no
\* constraint at all.
C26_UnsupportedOperatorYieldsNothing ==
    /\ (ParsedComparison /\ call.evaluation.operator \notin {">", "<", "="})
        => (call.raised = "None" /\ call.constraints = <<>>)
    /\ (/\ call.method = "parse_threshold_evaluation"
        /\ Len(call.evaluation.projects) = 1
        /\ Known(call.evaluation.projects[1])
        /\ Len(call.evaluation.values) = 1
        /\ call.evaluation.operator \notin {">=", "<="})
        => (call.raised = "None" /\ call.constraints = <<>>)

\* Threshold(A, '>', 0.4) has been parsed on the two-criteria translator
C26_Witness ==
    /\ call.method = "parse_threshold_evaluation"
    /\ call.evaluation.projects = <<"A">>
    /\ call.evaluation.operator = ">"
    /\ call.evaluation.values = <<40>>
    /\ n_criteria = 2
    /\ call.raised = "None"
    /\ call.constraints = <<>>

----------------------------------------------------------------------------
\* C28: compute_vertices never takes the pypoman path: its guard 'PYPOMAN_AVAILABLE
\* and self.A_eq is None' is false in every state a visualizer can be in, whether
\* or not pypoman is installed, because A_eq is always an array (with zero rows when
\* there is no equality).
C28_NeverLibraryPath ==
    visualizer.built
    => /\ \A pypoman_available \in BOOLEAN : ~library_path(visualizer, pypoman_available)
       /\ visualizer.A_eq.shape = <<Len(visualizer.b_eq), visualizer.n_dimensions>>

\* vertices have been enumerated for a system without any equality row
C28_Witness ==
    /\ visualizer.built
    /\ Len(visualizer.b_eq) = 0
    /\ Len(visualizer.b_ineq) > 0
    /\ visualizer.vertices_cache # None
    /\ Len(visualizer.vertices_cache.val) > 0
    /\ ~library_path(visualizer, TRUE)

----------------------------------------------------------------------------
(* Vocabulary of the properties of the WizardBackend *)

\* the methods that need the translator
TranslatorMethods ==
    {"generate_constraint_matrices", "create_visualizations",
     "validate_constraints", "export_for_optimization"}

\* C29: on a WizardBackend whose translator has not been created, each of
\* generate_constraint_matrices, create_visualizations, validate_constraints and
\* export_for_optimization returns a dictionary with status 'error' and the
\* 'Translator not initialized' message, raises nothing, and leaves the backend's
\* projects, evaluations, translator and visualizer as they were.
C29_NotInitializedIsAnErrorResult ==
    [][(/\ backend.translator = "None"
        /\ call'.method \in TranslatorMethods
        /\ call' # call)
       => (/\ call'.returned.status = "error"
           /\ call'.returned.message
                = "Translator not initialized. Call create_translator() first."
           /\ UNCHANGED <<backend, projects, criteria, evaluations, constraints,
                          visualizer>>)]_vars

\* create_visualizations was refused on a backend that has loaded two projects
C29_Witness ==
    /\ backend.translator = "None"
    /\ Len(backend.projects) = 2
    /\ call.method = "create_visualizations"
    /\ call.returned = NotInitialized
    /\ visualizer = NoVisualizer

\* C30: validate_constraints of a WizardBackend whose translator has been created
\* returns status 'success', with is_valid taken from the translator's validation
\* result and validation_details equal to that result.
C30_ValidateReturnsSuccess ==
    (call.method = "validate_constraints" /\ backend.translator = "created")
    => /\ call.returned.status = "success"
       /\ call.returned.validation_details = validate_constraints(constraints)

====
